---- MODULE Spec2Model ----
(***************************************************************************)
(* A model of epub2audiobook: the EPUB parser's chapter extraction, the    *)
(* ffmetadata generator of the M4B builder, the Converter.convert          *)
(* orchestration loop over a working directory, and the web layer's        *)
(* JobManager with its background conversion workers.                      *)
(*                                                                         *)
(* Strings whose characters matter (texts, titles, file names) are         *)
(* sequences of one-character strings.                                      *)
(***************************************************************************)
EXTENDS Integers, Sequences, FiniteSets, TLC

VARIABLES
    book,      \* parser input: the spine of the EPUB being parsed
    parsed,    \* parser output: status and the chapter list
    ffIn,      \* _build_ffmetadata input: chapter_audios and metadata
    ffOut,     \* _build_ffmetadata output: the text, or None
    run,       \* the call of Converter.convert in progress (or ended)
    world,     \* the file system
    world0,    \* the file system before the first call
    runs,      \* the earlier calls on the same working directory, ended
    jobs,      \* JobManager._jobs: job id -> job
    uploads,   \* the job directories under data_dir: job id -> the upload
    threads,   \* the run_conversion threads started, in order of start
    resp,      \* the response to the request just handled, if any
    registry,  \* tts.ENGINE_REGISTRY: the registered keys, in order of registration
    arg,       \* the argument of the function applied on its own
    result,    \* its result, or None
    report,    \* what cli.main reported when it ended: exit status and messages
    mgr        \* a JobManager stepped through statement by statement, or None

webVars == <<jobs, uploads, threads, resp, registry>>

fnVars == <<arg, result>>

vars == <<book, parsed, ffIn, ffOut, run, world, world0, runs, webVars, fnVars, report, mgr>>

\* Optional values: None, or Some(x)
None == <<>>
Some(x) == <<x>>

(***************************************************************************)
(* Bounds of the model.                                                    *)
(***************************************************************************)
MaxSpine == 3          \* longest spine handed to the parser
MaxAudios == 3         \* longest chapter_audios list handed to _build_ffmetadata
MaxChapters == 2       \* most chapters of a book handed to Converter.convert

(***************************************************************************)
(* Character strings.                                                      *)
(***************************************************************************)
Whitespace == {" ", "\n", "\t"}

RECURSIVE LStrip(_)
LStrip(s) ==
    IF s # <<>> /\ Head(s) \in Whitespace THEN LStrip(Tail(s)) ELSE s

RECURSIVE RStrip(_)
RStrip(s) ==
    IF s # <<>> /\ s[Len(s)] \in Whitespace
    THEN RStrip(SubSeq(s, 1, Len(s) - 1))
    ELSE s

\* str.strip()
Strip(s) == RStrip(LStrip(s))

Digit(d) == <<"0", "1", "2", "3", "4", "5", "6", "7", "8", "9">>[d + 1]

\* f"{n}" for a non-negative integer
RECURSIVE Decimal(_)
Decimal(n) ==
    IF n < 10 THEN <<Digit(n)>> ELSE Decimal(n \div 10) \o <<Digit(n % 10)>>

RECURSIVE ZeroPad(_, _)
ZeroPad(digits, width) ==
    IF Len(digits) >= width THEN digits ELSE ZeroPad(<<"0">> \o digits, width)

\* f"{n:04d}"
Pad04d(n) == ZeroPad(Decimal(n), 4)

RECURSIVE JoinLines(_)
JoinLines(lines) ==
    IF lines = <<>> THEN <<>>
    ELSE IF Len(lines) = 1 THEN lines[1]
    ELSE lines[1] \o <<"\n">> \o JoinLines(Tail(lines))

(***************************************************************************)
(* models.py                                                               *)
(***************************************************************************)
Chapter(index, title, text) == [index |-> index, title |-> title, text |-> text]

BookMetadata(title, author, language, cover_image) ==
    [title |-> title, author |-> author, language |-> language,
     cover_image |-> cover_image]

ChapterAudio(chapter, audio_path, duration_ms) ==
    [chapter |-> chapter, audio_path |-> audio_path, duration_ms |-> duration_ms]

(***************************************************************************)
(* epub_parser.py: EpubParser._extract_chapters                            *)
(*                                                                         *)
(* A spine entry is what the loop reads of it: whether get_item_with_id    *)
(* finds the item, whether get_body_content returns a body, the text       *)
(* _html_to_text returns for that body (already stripped, possibly empty)  *)
(* and the heading _extract_title finds (None when there is none).         *)
(***************************************************************************)
SpineEntry(item, body, text, heading) ==
    [item |-> item, body |-> body, text |-> text, heading |-> heading]

EntryPool ==
    { SpineEntry(FALSE, FALSE, <<>>, None),                 \* no such item
      SpineEntry(TRUE, FALSE, <<>>, None),                  \* item without a body
      SpineEntry(TRUE, TRUE, <<>>, None),                   \* body with no text
      SpineEntry(TRUE, TRUE, <<"a">>, Some(<<"T">>)),            \* text under a heading
      SpineEntry(TRUE, TRUE, <<"b", ".">>, None) }          \* text, no heading

\* f"Capitolo {index + 1}"
DefaultTitle(index) ==
    <<"C", "a", "p", "i", "t", "o", "l", "o", " ">> \o Decimal(index + 1)

SkippedWithoutText(e) == ~e.item \/ ~e.body

\* Whether the loop body reaches `continue` for this entry.
Skipped(e) == ~e.item \/ ~e.body \/ Strip(e.text) = <<>>

\* One iteration of the for loop over the spine; st is (index, chapters).
ExtractStepEnumerate(st, e) ==
    IF Skipped(e)
    THEN [st EXCEPT !.index = @ + 1]
    ELSE [index |-> st.index + 1,
          chapters |-> Append(st.chapters,
              Chapter(st.index,
                      IF e.heading # None THEN e.heading[1] ELSE DefaultTitle(st.index),
                      e.text))]

ExtractStep(st, e) ==
    IF Skipped(e)
    THEN st
    ELSE [index |-> st.index + 1,
          chapters |-> Append(st.chapters,
              Chapter(st.index,
                      IF e.heading # None THEN e.heading[1] ELSE DefaultTitle(st.index),
                      e.text))]

RECURSIVE ExtractLoop(_, _)
ExtractLoop(spine, st) ==
    IF spine = <<>> THEN st
    ELSE ExtractLoop(Tail(spine), ExtractStep(st, Head(spine)))

ExtractChaptersUnchecked(spine) ==
    [status |-> "ok",
     chapters |-> ExtractLoop(spine, [index |-> 0, chapters |-> <<>>]).chapters]

\* The chapter list, or the ValueError raised when it is empty.
ExtractChapters(spine) ==
    LET chapters == ExtractLoop(spine, [index |-> 0, chapters |-> <<>>]).chapters
    IN  IF chapters = <<>>
        THEN [status |-> "ValueError", chapters |-> <<>>]
        ELSE [status |-> "ok", chapters |-> chapters]

(***************************************************************************)
(* audio/m4b_builder.py: _escape and _build_ffmetadata                     *)
(***************************************************************************)
\* str.replace(old, new) for a one-character old
RECURSIVE Replace(_, _, _)
Replace(s, old, new) ==
    IF s = <<>> THEN <<>>
    ELSE (IF Head(s) = old THEN new ELSE <<Head(s)>>) \o Replace(Tail(s), old, new)

EscapedChars == <<"=", ";", "#", "\n">>

RECURSIVE EscapeEach(_, _)
EscapeEach(value, chars) ==
    IF chars = <<>> THEN value
    ELSE EscapeEach(Replace(value, Head(chars), <<"\\", Head(chars)>>), Tail(chars))

EscapeBackslashLast(value) ==
    Replace(EscapeEach(value, EscapedChars), "\\", <<"\\", "\\">>)

\* _escape(value)
Escape(value) == EscapeEach(Replace(value, "\\", <<"\\", "\\">>), EscapedChars)

\* The lines one chapter adds, and the running time after it.
ChapterLinesStartAfter(current_time_ms, ch_audio) ==
    [lines |-> << <<"[", "C", "H", "A", "P", "T", "E", "R", "]">>,
                  <<"T", "I", "M", "E", "B", "A", "S", "E", "=", "1", "/", "1", "0", "0", "0">>,
                  <<"S", "T", "A", "R", "T", "=">> \o Decimal(current_time_ms + ch_audio.duration_ms),
                  <<"E", "N", "D", "=">> \o Decimal(current_time_ms + ch_audio.duration_ms),
                  <<"t", "i", "t", "l", "e", "=">> \o Escape(ch_audio.chapter.title),
                  <<>> >>,
     time |-> current_time_ms + ch_audio.duration_ms]

ChapterLines(current_time_ms, ch_audio) ==
    [lines |-> << <<"[", "C", "H", "A", "P", "T", "E", "R", "]">>,
                  <<"T", "I", "M", "E", "B", "A", "S", "E", "=", "1", "/", "1", "0", "0", "0">>,
                  <<"S", "T", "A", "R", "T", "=">> \o Decimal(current_time_ms),
                  <<"E", "N", "D", "=">> \o Decimal(current_time_ms + ch_audio.duration_ms),
                  <<"t", "i", "t", "l", "e", "=">> \o Escape(ch_audio.chapter.title),
                  <<>> >>,
     time |-> current_time_ms + ch_audio.duration_ms]

RECURSIVE ChapterLoop(_, _, _)
ChapterLoop(chapter_audios, current_time_ms, lines) ==
    IF chapter_audios = <<>> THEN lines
    ELSE LET c == ChapterLines(current_time_ms, Head(chapter_audios))
         IN  ChapterLoop(Tail(chapter_audios), c.time, lines \o c.lines)

FFMetadataLines(chapter_audios, metadata) ==
    ChapterLoop(chapter_audios, 0,
        << <<";", "F", "F", "M", "E", "T", "A", "D", "A", "T", "A", "1">>,
           <<"t", "i", "t", "l", "e", "=">> \o Escape(metadata.title),
           <<"a", "r", "t", "i", "s", "t", "=">> \o Escape(metadata.author),
           <<>> >>)

\* "\n".join(lines)
BuildFFMetadata(chapter_audios, metadata) ==
    JoinLines(FFMetadataLines(chapter_audios, metadata))

(***************************************************************************)
(* Converter.convert names a chapter's audio file                          *)
(* f"chapter_{chapter.index:04d}.{ext}".                                   *)
(***************************************************************************)
AudioName(index, ext) ==
    <<"c", "h", "a", "p", "t", "e", "r", "_">> \o Pad04d(index) \o <<".">> \o ext

Mp3 == <<"m", "p", "3">>
Wav == <<"w", "a", "v">>

(***************************************************************************)
(* The file system.  A world w holds w.fs, a function from the existing    *)
(* directories to their files (file name -> content), w.out, a function    *)
(* from the output paths at which a file stands to its content, and w.tmp, *)
(* the number of temporary directories tempfile.mkdtemp has made so far.   *)
(*                                                                         *)
(* An audio file is Audio(by, n, ok): who wrote it, its size n (for audio  *)
(* an engine wrote, the number of characters synthesized so far) and       *)
(* whether ffprobe can read its container.                                 *)
(***************************************************************************)
NoExc == ""

Audio(by, n, ok) == [kind |-> "audio", by |-> by, n |-> n, ok |-> ok]

\* Path.stat().st_size
Size(c) == c.n

Put(files, name, c) ==
    [x \in DOMAIN files \cup {name} |-> IF x = name THEN c ELSE files[x]]

Remove(files, name) == [x \in DOMAIN files \ {name} |-> files[x]]

NoFiles == [x \in {} |-> None]

Exists(w, dir, name) == dir \in DOMAIN w.fs /\ name \in DOMAIN w.fs[dir]

WriteFile(w, dir, name, c) ==
    [w EXCEPT !.fs = [d \in DOMAIN w.fs |->
                        IF d = dir THEN Put(w.fs[d], name, c) ELSE w.fs[d]]]

\* Path.mkdir(parents=True, exist_ok=True)
Mkdir(w, dir) ==
    [w EXCEPT !.fs = [d \in DOMAIN w.fs \cup {dir} |->
                        IF d \in DOMAIN w.fs THEN w.fs[d] ELSE NoFiles]]

\* shutil.rmtree(path, ignore_errors=True)
Rmtree(w, dir) == [w EXCEPT !.fs = [d \in DOMAIN w.fs \ {dir} |-> w.fs[d]]]

\* tempfile.mkdtemp(prefix="e2a_"): a directory that did not exist before
TempName(k) == "e2a_" \o ToString(k)

Mkdtemp(w) == Mkdir([w EXCEPT !.tmp = @ + 1], TempName(w.tmp + 1))

(***************************************************************************)
(* tts: the engines behind TTSEngine.synthesize.                           *)
(***************************************************************************)
Engines == {"edge", "kokoro", "piper"}

\* TTSEngine.output_format
OutputFormat(e) == IF e = "edge" THEN Mp3 ELSE Wav

\* What a synthesize call that returns leaves at output_path: the complete
\* audio of the text, the same for the same engine and text.
FullAudio(e, text) == Audio(e, Len(text), TRUE)

\* What a synthesize call that does not return (it raises, or it is
\* interrupted) can leave at output_path: the engines write to output_path
\* itself, so the file is as it was, or holds the part written so far.
AbortedFiles(e, files, name, text) ==
    {files} \cup { Put(files, name, Audio(e, k, TRUE)) : k \in 0..(Len(text) - 1) }

(***************************************************************************)
(* audio/audio_utils.py: probe_duration_ms                                 *)
(***************************************************************************)
\* The duration ffprobe reports, in microseconds.
DurationUs(c) == c.n * 1500

Probeable(files, name) ==
    name \in DOMAIN files /\ files[name].kind = "audio" /\ files[name].ok
        /\ Size(files[name]) > 0

\* int(duration_seconds * 1000)
ProbeDurationMs(c) == DurationUs(c) \div 1000

(***************************************************************************)
(* audio/m4b_builder.py: build_m4b and _save_cover.                        *)
(***************************************************************************)
ConcatTxt == <<"c", "o", "n", "c", "a", "t", ".", "t", "x", "t">>
FFMetadataTxt == <<"f", "f", "m", "e", "t", "a", "d", "a", "t", "a", ".", "t", "x", "t">>
CombinedM4a == <<"c", "o", "m", "b", "i", "n", "e", "d", ".", "m", "4", "a">>
WithChaptersM4b == <<"w", "i", "t", "h", "_", "c", "h", "a", "p", "t", "e", "r", "s", ".", "m", "4", "b">>

JpgMagic == <<255, 216, 255>>
PngMagic == <<137, 80, 78, 71, 13, 10, 26, 10>>

StartsWith(data, prefix) ==
    Len(data) >= Len(prefix) /\ SubSeq(data, 1, Len(prefix)) = prefix

\* _save_cover's file name
CoverName(data) ==
    <<"c", "o", "v", "e", "r">> \o
        (IF StartsWith(data, JpgMagic) THEN <<".", "j", "p", "g">>
         ELSE IF StartsWith(data, PngMagic) THEN <<".", "p", "n", "g">>
         ELSE <<".", "j", "p", "g">>)

\* `if metadata.cover_image`: neither None nor empty bytes
HasCover(metadata) == metadata.cover_image # None /\ metadata.cover_image[1] # <<>>

\* The lines of concat.txt
ConcatLines(chapter_audios) ==
    [k \in 1..Len(chapter_audios) |->
        <<"f", "i", "l", "e", " ", "'">>
            \o Replace(chapter_audios[k].audio_path.name, "'", <<"'", "\\", "'", "'">>)
            \o <<"'", "\n">>]

\* What ffmpeg reads when it follows concat.txt: the files as they are now.
TracksRead(chapter_audios, files) ==
    [k \in 1..Len(chapter_audios) |->
        IF chapter_audios[k].audio_path.name \in DOMAIN files
        THEN Some(files[chapter_audios[k].audio_path.name]) ELSE None]

Encodable(chapter_audios, files) ==
    /\ chapter_audios # <<>>
    /\ \A k \in 1..Len(chapter_audios) :
          Probeable(files, chapter_audios[k].audio_path.name)

M4a(tracks, complete) == [kind |-> "m4a", tracks |-> tracks, complete |-> complete]

M4b(tracks, meta, cover, complete) ==
    [kind |-> "m4b", tracks |-> tracks, meta |-> meta, cover |-> cover,
     complete |-> complete]

\* The outcomes of build_m4b(chapter_audios, metadata, output_path, temp_dir):
\* the files of temp_dir and the content at output_path afterwards, and the
\* exception raised (None when it returns).  A failing ffmpeg run leaves its
\* output file unwritten or partly written.
BuildM4b(chapter_audios, metadata, files, out) ==
    LET f1 == Put(Put(files, ConcatTxt,
                      [kind |-> "text", lines |-> ConcatLines(chapter_audios)]),
                  FFMetadataTxt,
                  [kind |-> "text", lines |-> BuildFFMetadata(chapter_audios, metadata)])
        tracks == TracksRead(chapter_audios, f1)
        meta == f1[FFMetadataTxt].lines
        f2 == Put(f1, CombinedM4a, M4a(tracks, TRUE))
        f2part == Put(f1, CombinedM4a, M4a(tracks, FALSE))
        cover == metadata.cover_image
        f3 == Put(f2, CoverName(cover[1]), [kind |-> "image", data |-> cover[1]])
        f4 == Put(f3, WithChaptersM4b, M4b(tracks, meta, None, TRUE))
        f4part == Put(f3, WithChaptersM4b, M4b(tracks, meta, None, FALSE))
        Raised(fl, o) == [files |-> fl, out |-> o, exc |-> "CalledProcessError"]
        encodeFails == { Raised(f1, out), Raised(f2part, out) }
        withCover ==
            { Raised(f3, out), Raised(f4part, out),
              Raised(f4, out), Raised(f4, Some(M4b(tracks, meta, cover, FALSE))),
              [files |-> Remove(Remove(f4, WithChaptersM4b), CombinedM4a),
               out |-> Some(M4b(tracks, meta, cover, TRUE)), exc |-> NoExc] }
        noCover ==
            { Raised(f2, out), Raised(f2, Some(M4b(tracks, meta, None, FALSE))),
              [files |-> Remove(f2, CombinedM4a),
               out |-> Some(M4b(tracks, meta, None, TRUE)), exc |-> NoExc] }
    IN  encodeFails \cup
        (IF ~Encodable(chapter_audios, f1) THEN {}
         ELSE IF HasCover(metadata) THEN withCover ELSE noCover)

(***************************************************************************)
(* converter.py: Converter.convert.                                        *)
(*                                                                         *)
(* A run r is one call of convert: its arguments (book stands for the EPUB *)
(* at epub_path), its locals, its position pc, the exception it is         *)
(* propagating (NoExc for none), and a record of what it has called:       *)
(* reached (per chapter reached, the audio file found at its path, if      *)
(* any), synthCalls and probeCalls (chapter indices), progressCalls (the *)
(* callback's arguments), buildCalls (build_m4b's inputs) and probed (the  *)
(* file content each duration was probed from).                            *)
(*                                                                         *)
(* Each step is an operator from (r, w) to the set of its outcomes.        *)
(***************************************************************************)
NewRun(epub, output_path, engine, on_progress, work_dir) ==
    [pc |-> "start", book |-> epub, output_path |-> output_path, engine |-> engine,
     on_progress |-> on_progress, work_dir |-> work_dir,
     chapters |-> <<>>, metadata |-> epub.metadata,
     cleanup_work_dir |-> FALSE, work_path |-> "", i |-> 0,
     chapter_audios |-> <<>>, exc |-> NoExc,
     enrichCalls |-> <<>>, reached |-> <<>>, synthCalls |-> <<>>, probeCalls |-> <<>>,
     progressCalls |-> <<>>, buildCalls |-> <<>>, probed |-> <<>>]

Outcome(r, w) == [r |-> r, w |-> w]

\* The cover the online lookup finds, when it finds one.
OnlineCover == JpgMagic \o <<1>>

\* What a lookup of metadata.py does, as _enrich_metadata sees it: it raises,
\* it returns without a cover ({} or None), or it returns a cover.
LookupResults == {"raised", "empty", "cover"}

WithCover(metadata, cover) ==
    BookMetadata(metadata.title, metadata.author, metadata.language, Some(cover))

Enriched(given, metadata, lookups) ==
    [given |-> given, metadata |-> metadata, lookups |-> lookups]

\* lines 108-138 of _enrich_metadata, after the test of line 104:
\* enrich_metadata, then fetch_cover_image if it returned no cover
EnrichLookups(metadata) ==
    {Enriched(metadata, metadata, <<"raised">>),
     Enriched(metadata, WithCover(metadata, OnlineCover), <<"cover">>),
     Enriched(metadata, metadata, <<"empty", "raised">>),
     Enriched(metadata, metadata, <<"empty", "empty">>),
     Enriched(metadata, WithCover(metadata, OnlineCover), <<"empty", "cover">>)}

\* _enrich_metadata without the test of line 104
EnrichMetadataAlways(metadata) == EnrichLookups(metadata)

\* Converter._enrich_metadata: the metadata it can return, with the lookups made
EnrichMetadata(metadata) ==
    IF HasCover(metadata) THEN {Enriched(metadata, metadata, <<>>)}
    ELSE EnrichLookups(metadata)

\* lines 46-47: parser.parse()
ConvParse(r, w) ==
    IF r.pc # "start" THEN {}
    ELSE LET res == ExtractChapters(r.book.spine)
         IN  IF res.status # "ok"
             THEN {Outcome([r EXCEPT !.pc = "raised", !.exc = res.status], w)}
             ELSE {Outcome([r EXCEPT !.pc = "enrich", !.chapters = res.chapters], w)}

\* line 54
ConvEnrich(r, w) ==
    IF r.pc # "enrich" THEN {}
    ELSE { Outcome([r EXCEPT !.pc = "workdir", !.metadata = e.metadata,
                             !.enrichCalls = Append(@, e)], w) :
              e \in EnrichMetadata(r.metadata) }

\* `Path(work_dir) if work_dir else ...`
Truthy(work_dir) == work_dir # None /\ work_dir[1] # ""

\* lines 57-59
ConvWorkDir(r, w) ==
    IF r.pc # "workdir" THEN {}
    ELSE LET path == IF Truthy(r.work_dir) THEN r.work_dir[1] ELSE TempName(w.tmp + 1)
             w1 == IF Truthy(r.work_dir) THEN w ELSE Mkdtemp(w)
         IN  {Outcome([r EXCEPT !.pc = "loop", !.i = 1,
                                !.cleanup_work_dir = (r.work_dir = None),
                                !.work_path = path],
                      Mkdir(w1, path))}

CurrentChapter(r) == r.chapters[r.i]

\* lines 66-67
AudioPath(r) ==
    [dir |-> r.work_path,
     name |-> AudioName(CurrentChapter(r).index, OutputFormat(r.engine))]

IsCachedIfExists(w, path) == Exists(w, path.dir, path.name)

\* line 70: audio_path.exists() and audio_path.stat().st_size > 0
IsCached(w, path) ==
    Exists(w, path.dir, path.name) /\ Size(w.fs[path.dir][path.name]) > 0

\* lines 65-84 with probe_duration_ms called for synthesized files only: a
\* file found is recorded with the duration of its content, unprobed
ConvNextChapterTrustCached(r, w) ==
    IF r.pc # "loop" THEN {}
    ELSE IF r.i > Len(r.chapters) THEN {Outcome([r EXCEPT !.pc = "assemble"], w)}
    ELSE LET cached == IsCached(w, AudioPath(r))
             seen == IF Exists(w, AudioPath(r).dir, AudioPath(r).name)
                     THEN Some(w.fs[AudioPath(r).dir][AudioPath(r).name]) ELSE None
             r1 == [r EXCEPT !.reached = Append(@, [index |-> CurrentChapter(r).index,
                                                     file |-> seen])]
         IN  IF cached
             THEN {Outcome([r1 EXCEPT
                      !.pc = "progress",
                      !.chapter_audios = Append(@,
                          ChapterAudio(CurrentChapter(r), AudioPath(r),
                                       ProbeDurationMs(seen[1]))),
                      !.probed = Append(@, seen[1])], w)}
             ELSE {Outcome([r1 EXCEPT !.pc = "synth",
                                      !.synthCalls = Append(@, CurrentChapter(r).index)], w)}

\* lines 65-77 with a chapter whose file is found left out of chapter_audios
ConvNextChapterSkipCached(r, w) ==
    IF r.pc # "loop" THEN {}
    ELSE IF r.i > Len(r.chapters) THEN {Outcome([r EXCEPT !.pc = "assemble"], w)}
    ELSE LET cached == IsCached(w, AudioPath(r))
             seen == IF Exists(w, AudioPath(r).dir, AudioPath(r).name)
                     THEN Some(w.fs[AudioPath(r).dir][AudioPath(r).name]) ELSE None
             r1 == [r EXCEPT !.reached = Append(@, [index |-> CurrentChapter(r).index,
                                                     file |-> seen])]
         IN  IF cached
             THEN {Outcome([r1 EXCEPT !.pc = "loop", !.i = @ + 1], w)}
             ELSE {Outcome([r1 EXCEPT !.pc = "synth",
                                      !.synthCalls = Append(@, CurrentChapter(r).index)], w)}

\* lines 65-77: the loop reaches its next chapter, reuses the file it finds
\* or calls engine.synthesize; after the last chapter it goes on to assembly.
ConvNextChapter(r, w) ==
    IF r.pc # "loop" THEN {}
    ELSE IF r.i > Len(r.chapters) THEN {Outcome([r EXCEPT !.pc = "assemble"], w)}
    ELSE LET cached == IsCached(w, AudioPath(r))
             seen == IF Exists(w, AudioPath(r).dir, AudioPath(r).name)
                     THEN Some(w.fs[AudioPath(r).dir][AudioPath(r).name]) ELSE None
             r1 == [r EXCEPT !.reached = Append(@, [index |-> CurrentChapter(r).index,
                                                     file |-> seen])]
         IN  IF cached
             THEN {Outcome([r1 EXCEPT !.pc = "probe"], w)}
             ELSE {Outcome([r1 EXCEPT !.pc = "synth",
                                      !.synthCalls = Append(@, CurrentChapter(r).index)], w)}

\* line 77: engine.synthesize returns
ConvSynthReturn(r, w) ==
    IF r.pc # "synth" THEN {}
    ELSE {Outcome([r EXCEPT !.pc = "probe"],
                  WriteFile(w, AudioPath(r).dir, AudioPath(r).name,
                            FullAudio(r.engine, CurrentChapter(r).text)))}

\* The worlds a synthesize call that stops with an exception can leave.
SynthAborted(r, w) ==
    { [w EXCEPT !.fs = [d \in DOMAIN w.fs |->
                          IF d = AudioPath(r).dir THEN files ELSE w.fs[d]]] :
        files \in AbortedFiles(r.engine, w.fs[AudioPath(r).dir], AudioPath(r).name,
                               CurrentChapter(r).text) }

ConvSynthRaiseContinue(r, w) ==
    IF r.pc # "synth" THEN {}
    ELSE { Outcome([r EXCEPT !.pc = "loop", !.i = @ + 1, !.exc = "RuntimeError"], w2) :
              w2 \in SynthAborted(r, w) }

\* line 77: engine.synthesize raises
ConvSynthRaise(r, w) ==
    IF r.pc # "synth" THEN {}
    ELSE { Outcome([r EXCEPT !.pc = "finally", !.exc = "RuntimeError"], w2) :
              w2 \in SynthAborted(r, w) }

\* lines 79-84 with a failed probe logged and the loop going on
ConvProbeFailureContinues(r, w) ==
    IF r.pc # "probe" THEN {}
    ELSE LET path == AudioPath(r)
             r1 == [r EXCEPT !.probeCalls = Append(@, CurrentChapter(r).index)]
         IN  IF Probeable(w.fs[path.dir], path.name)
             THEN {Outcome([r1 EXCEPT
                      !.pc = "progress",
                      !.chapter_audios = Append(@,
                          ChapterAudio(CurrentChapter(r), path,
                                       ProbeDurationMs(w.fs[path.dir][path.name]))),
                      !.probed = Append(@, w.fs[path.dir][path.name])], w)}
             ELSE {Outcome([r1 EXCEPT !.pc = "progress"], w)}

\* lines 79-84: probe_duration_ms, then the ChapterAudio is appended
ConvProbe(r, w) ==
    IF r.pc # "probe" THEN {}
    ELSE LET path == AudioPath(r)
             r1 == [r EXCEPT !.probeCalls = Append(@, CurrentChapter(r).index)]
         IN  IF Probeable(w.fs[path.dir], path.name)
             THEN {Outcome([r1 EXCEPT
                      !.pc = "progress",
                      !.chapter_audios = Append(@,
                          ChapterAudio(CurrentChapter(r), path,
                                       ProbeDurationMs(w.fs[path.dir][path.name]))),
                      !.probed = Append(@, w.fs[path.dir][path.name])], w)}
             ELSE {Outcome([r1 EXCEPT !.pc = "finally", !.exc = "CalledProcessError"], w)}

ProgressArgsZeroBased(r) ==
    <<CurrentChapter(r).index, Len(r.chapters), CurrentChapter(r).title>>

\* lines 86-87, and the loop moves on
ProgressArgs(r) ==
    <<CurrentChapter(r).index + 1, Len(r.chapters), CurrentChapter(r).title>>

ConvProgress(r, w) ==
    IF r.pc # "progress" THEN {}
    ELSE {Outcome([r EXCEPT !.pc = "loop", !.i = @ + 1,
                            !.progressCalls =
                                IF r.on_progress THEN Append(@, ProgressArgs(r)) ELSE @],
                  w)}

OutputAt(w, path) == IF path \in DOMAIN w.out THEN Some(w.out[path]) ELSE None

\* lines 91-92: build_m4b(chapter_audios, metadata, out, work_path, bitrate)
ConvAssemble(r, w) ==
    IF r.pc # "assemble" THEN {}
    ELSE { Outcome([r EXCEPT !.pc = "finally", !.exc = o.exc,
                             !.buildCalls = Append(@,
                                 [chapter_audios |-> r.chapter_audios,
                                  metadata |-> r.metadata,
                                  tracks |-> TracksRead(r.chapter_audios,
                                                        w.fs[r.work_path])])],
                   [w EXCEPT !.fs = [d \in DOMAIN w.fs |->
                                        IF d = r.work_path THEN o.files ELSE w.fs[d]],
                             !.out = IF o.out = None THEN w.out
                                     ELSE Put(w.out, r.output_path, o.out[1])]) :
              o \in BuildM4b(r.chapter_audios, r.metadata, w.fs[r.work_path],
                             OutputAt(w, r.output_path)) }

ConvFinallyOnSuccessOnly(r, w) ==
    IF r.pc # "finally" THEN {}
    ELSE {Outcome([r EXCEPT !.pc = IF r.exc = NoExc THEN "returned" ELSE "raised"],
                  IF r.cleanup_work_dir /\ r.exc = NoExc
                  THEN Rmtree(w, r.work_path) ELSE w)}

\* lines 95-97: the finally block, then convert returns or raises
ConvFinally(r, w) ==
    IF r.pc # "finally" THEN {}
    ELSE {Outcome([r EXCEPT !.pc = IF r.exc = NoExc THEN "returned" ELSE "raised"],
                  IF r.cleanup_work_dir THEN Rmtree(w, r.work_path) ELSE w)}

\* An interruption (KeyboardInterrupt) while the try block runs.
ConvInterrupt(r, w) ==
    IF r.pc \notin {"loop", "synth", "probe", "progress", "assemble"} THEN {}
    ELSE { Outcome([r EXCEPT !.pc = "finally", !.exc = "KeyboardInterrupt"], w2) :
              w2 \in IF r.pc = "synth" THEN SynthAborted(r, w) ELSE {w} }

Ended(r) == r.pc \in {"returned", "raised"}

(***************************************************************************)
(* Reading an ffmetadata text back, as its consumer does: lines end at a   *)
(* newline that no backslash escapes; a [CHAPTER] line opens a marker,     *)
(* whose START, END and title lines follow the TIMEBASE line.              *)
(***************************************************************************)
\* The number of backslashes that stand right before position i.
BackslashRun(text, i) ==
    CHOOSE n \in 0..(i - 1) :
        /\ \A j \in (i - n)..(i - 1) : text[j] = "\\"
        /\ (n = i - 1 \/ text[i - n - 1] # "\\")

LineBreaks(text) ==
    { i \in 1..Len(text) : text[i] = "\n" /\ BackslashRun(text, i) % 2 = 0 }

SplitFF(text) ==
    LET brk == LineBreaks(text)
        nth(k) == IF k = 0 THEN 0
                  ELSE IF k > Cardinality(brk) THEN Len(text) + 1
                  ELSE CHOOSE x \in brk : Cardinality({ y \in brk : y < x }) = k - 1
    IN  [k \in 1..(Cardinality(brk) + 1) |-> SubSeq(text, nth(k - 1) + 1, nth(k) - 1)]

RECURSIVE MarkersOf(_)
MarkersOf(lines) ==
    IF lines = <<>> THEN <<>>
    ELSE IF Head(lines) = <<"[", "C", "H", "A", "P", "T", "E", "R", "]">> /\ Len(lines) >= 5
         THEN <<[start |-> lines[3], end |-> lines[4], title |-> lines[5]]>>
              \o MarkersOf(Tail(lines))
    ELSE MarkersOf(Tail(lines))

Markers(text) == MarkersOf(SplitFF(text))

RECURSIVE SumDurations(_, _)
SumDurations(chapter_audios, n) ==
    IF n = 0 THEN 0
    ELSE SumDurations(chapter_audios, n - 1) + chapter_audios[n].duration_ms

(***************************************************************************)
(* The parser alone: any spine of at most MaxSpine entries is parsed.      *)
(***************************************************************************)
SeqsUpTo(S, n) == UNION { [1..k -> S] : k \in 0..n }

FFIdle == ffIn = None /\ ffOut = None
ParseIdle == book = None /\ parsed = None
ConvIdle == run = None /\ world = None /\ world0 = None /\ runs = <<>>
FnIdle == arg = None /\ result = None

CliIdle == report = None

\* no JobManager is being stepped through
MgrIdle == mgr = None

WebIdle ==
    jobs = None /\ uploads = None /\ threads = None /\ resp = None /\ registry = None

InitParse ==
    /\ CliIdle
    /\ MgrIdle
    /\ book \in { Some(sp) : sp \in SeqsUpTo(EntryPool, MaxSpine) }
    /\ parsed = None
    /\ FFIdle
    /\ ConvIdle
    /\ WebIdle
    /\ FnIdle

\* EpubParser.parse, for its chapters
Parse ==
    /\ book # None
    /\ parsed = None
    /\ parsed' = Some(ExtractChapters(book[1]))
    /\ UNCHANGED <<book, ffIn, ffOut, run, world, world0, runs, webVars, fnVars, report, mgr>>

NextParse == Parse

SpecParse == InitParse /\ [][NextParse]_vars

(***************************************************************************)
(* _build_ffmetadata alone: any list of at most MaxAudios chapter audios.  *)
(***************************************************************************)
TitlePool == { <<"a">>, <<"x", "=", "\\", "\n", "[">>, <<";", "#">> }
DurationPool == { 0, 7, 30000 }

AudiosOf(ps) ==
    [k \in 1..Len(ps) |->
        ChapterAudio(Chapter(k - 1, ps[k][1], <<"a">>), AudioName(k - 1, Mp3), ps[k][2])]

InitFF ==
    /\ CliIdle
    /\ MgrIdle
    /\ \E ps \in SeqsUpTo(TitlePool \X DurationPool, MaxAudios), t \in TitlePool :
          ffIn = Some([chapter_audios |-> AudiosOf(ps),
                       metadata |-> BookMetadata(t, <<"a">>, <<"i", "t">>, None)])
    /\ ffOut = None
    /\ ParseIdle
    /\ ConvIdle
    /\ WebIdle
    /\ FnIdle

\* _build_ffmetadata(chapter_audios, metadata)
ApplyBuildFFMetadata ==
    /\ ffIn # None
    /\ ffOut = None
    /\ ffOut' = Some(BuildFFMetadata(ffIn[1].chapter_audios, ffIn[1].metadata))
    /\ UNCHANGED <<book, parsed, ffIn, run, world, world0, runs, webVars, fnVars, report, mgr>>

NextFF == ApplyBuildFFMetadata

SpecFF == InitFF /\ [][NextFF]_vars

(***************************************************************************)
(* Converter.convert called by a command-line user: one call at a time on  *)
(* a book of at most MaxChapters chapters, with work_dir None, "" or "wd". *)
(* A named working directory may be absent before the first call, or hold  *)
(* files left by earlier work: empty, readable or unreadable.  After a     *)
(* call on a named working directory has ended, the user may call once     *)
(* more with the same arguments.                                           *)
(***************************************************************************)
TextA == SpineEntry(TRUE, TRUE, <<"a">>, Some(<<"T">>))
TextB == SpineEntry(TRUE, TRUE, <<"b", ".">>, None)
NoText == SpineEntry(TRUE, TRUE, <<>>, None)

\* The books: n chapters (TextA, TextB, TextA, ...) without a cover, for
\* n up to MaxChapters; one whose only entry is skipped; one with an entry
\* that is skipped before a chapter; one with a cover.
Alternating(n) == [k \in 1..n |-> IF k % 2 = 1 THEN TextA ELSE TextB]

Book(spine, cover) ==
    [spine |-> spine, metadata |-> BookMetadata(<<"B">>, <<"A">>, <<"i", "t">>, cover)]

ConvBooks ==
    { Book(Alternating(n), None) : n \in 0..MaxChapters }
        \cup { Book(<<NoText>>, None), Book(<<NoText, TextB>>, None),
               Book(<<TextB>>, Some(PngMagic)) }

PriorPool == { Audio("manual", 0, FALSE), Audio("manual", 2, FALSE), Audio("kokoro", 2, TRUE) }

PriorFiles(ext) ==
    UNION { [names -> PriorPool] : names \in SUBSET { AudioName(k, ext) : k \in 0..1 } }

InitWorlds(engine, work_dir) ==
    { [fs |-> [d \in {} |-> NoFiles], out |-> NoFiles, tmp |-> 0] } \cup
    (IF work_dir = Some("wd")
     THEN { [fs |-> [d \in {"wd"} |-> files], out |-> NoFiles, tmp |-> 0] :
              files \in PriorFiles(OutputFormat(engine)) }
     ELSE {})

Init ==
    /\ CliIdle
    /\ MgrIdle
    /\ \E b \in ConvBooks, e \in {"edge", "piper"}, p \in BOOLEAN,
          wd \in {None, Some(""), Some("wd")} :
          /\ run = Some(NewRun(b, "out.m4b", e, p, wd))
          /\ world \in { Some(w) : w \in InitWorlds(e, wd) }
    /\ world0 = world
    /\ runs = <<>>
    /\ ParseIdle
    /\ FFIdle
    /\ WebIdle
    /\ FnIdle

Step(outcomes) ==
    /\ \E o \in outcomes : run' = Some(o.r) /\ world' = Some(o.w)
    /\ UNCHANGED <<book, parsed, ffIn, ffOut, world0, runs, webVars, fnVars, report, mgr>>

DoParse == Step(ConvParse(run[1], world[1]))
DoEnrich == Step(ConvEnrich(run[1], world[1]))
DoWorkDir == Step(ConvWorkDir(run[1], world[1]))
DoNextChapter == Step(ConvNextChapter(run[1], world[1]))
DoSynthReturn == Step(ConvSynthReturn(run[1], world[1]))
DoSynthRaise == Step(ConvSynthRaise(run[1], world[1]))
DoProbe == Step(ConvProbe(run[1], world[1]))
DoProgress == Step(ConvProgress(run[1], world[1]))
DoAssemble == Step(ConvAssemble(run[1], world[1]))
DoFinally == Step(ConvFinally(run[1], world[1]))
DoInterrupt == Step(ConvInterrupt(run[1], world[1]))

\* The user calls convert again, with the same arguments.
Rerun ==
    /\ Ended(run[1])
    /\ Truthy(run[1].work_dir)
    /\ runs = <<>>
    /\ runs' = <<[exc |-> run[1].exc, completed |-> Len(run[1].chapter_audios)]>>
    /\ run' = Some(NewRun(run[1].book, run[1].output_path, run[1].engine,
                          run[1].on_progress, run[1].work_dir))
    /\ report' = None
    /\ UNCHANGED <<book, parsed, ffIn, ffOut, world, world0, webVars, fnVars, mgr>>

(***************************************************************************)
(* cli.py: main, from the call of convert to the exit of the process.      *)
(***************************************************************************)
Report(status, stdout, log) == [status |-> status, stdout |-> stdout, log |-> log]

\* lines 169-171: the hint printed after the interruption message
ResumeHint(r) ==
    IF Truthy(r.work_dir) THEN <<"Puoi riprendere con: -w " \o r.work_dir[1]>> ELSE <<>>

\* lines 157-183 with every exception of convert handled alike by the
\* "except Exception" branch
MainErrorOnly(r) ==
    IF r.exc = NoExc
    THEN Report(0, <<"Audiobook creato: " \o r.output_path>>, <<>>)
    ELSE Report(1, <<>>, <<"Errore: " \o r.exc>>)

\* lines 157-183: what main prints, logs and exits with after convert ended
Main(r) ==
    IF r.exc = NoExc
    THEN Report(0, <<"Audiobook creato: " \o r.output_path>>, <<>>)
    ELSE IF r.exc = "KeyboardInterrupt"
    THEN Report(1, <<"Conversione interrotta.">> \o ResumeHint(r), <<>>)
    ELSE Report(1, <<>>, <<"Errore: " \o r.exc>>)

\* convert has returned or raised: main reports and the process exits
MainExit ==
    /\ Ended(run[1])
    /\ report = None
    /\ report' = Some(Main(run[1]))
    /\ UNCHANGED <<book, parsed, ffIn, ffOut, run, world, world0, runs, webVars, fnVars, mgr>>

Next ==
    \/ DoParse
    \/ DoEnrich
    \/ DoWorkDir
    \/ DoNextChapter
    \/ DoSynthReturn
    \/ DoSynthRaise
    \/ DoProbe
    \/ DoProgress
    \/ DoAssemble
    \/ DoFinally
    \/ DoInterrupt
    \/ MainExit
    \/ Rerun

Spec == Init /\ [][Next]_vars

(***************************************************************************)
(* web/jobs.py: JobManager.  Each operation holds the lock from start to   *)
(* end; js is the dictionary _jobs.                                        *)
(***************************************************************************)
Job(job_id, epub_path, title, author, language, total_chapters, cover_image) ==
    [job_id |-> job_id, status |-> "uploaded", epub_path |-> epub_path,
     output_path |-> None, title |-> title, author |-> author,
     language |-> language, total_chapters |-> total_chapters,
     current_chapter |-> 0, chapter_title |-> <<>>, error |-> None,
     cover_image |-> cover_image]

Create(js, job_id, epub_path, title, author, language, total_chapters, cover_image) ==
    Put(js, job_id,
        Job(job_id, epub_path, title, author, language, total_chapters, cover_image))

\* a copy of the job, or None
Get(js, job_id) == IF job_id \in DOMAIN js THEN Some(js[job_id]) ELSE None

UpdateStatus(js, job_id, status) ==
    IF job_id \in DOMAIN js THEN [js EXCEPT ![job_id].status = status] ELSE js

\* update_progress storing the title and leaving the counts as they were
UpdateProgressTitleOnly(js, job_id, current, total, title) ==
    IF job_id \in DOMAIN js THEN [js EXCEPT ![job_id].chapter_title = title] ELSE js

UpdateProgress(js, job_id, current, total, title) ==
    IF job_id \in DOMAIN js
    THEN [js EXCEPT ![job_id].current_chapter = current,
                    ![job_id].total_chapters = total,
                    ![job_id].chapter_title = title]
    ELSE js

SetOutput(js, job_id, path) ==
    IF job_id \in DOMAIN js THEN [js EXCEPT ![job_id].output_path = Some(path)] ELSE js

SetError(js, job_id, error) ==
    IF job_id \in DOMAIN js THEN [js EXCEPT ![job_id].error = Some(error)] ELSE js

(***************************************************************************)
(* web/app.py: the paths of a job.  An upload is stored under its own file *)
(* name in the job's directory data_dir/job_id.                            *)
(***************************************************************************)
JobIds == {"j1", "j2"}

\* file names a client uploads, as stem and suffix
Filenames == { [stem |-> "book", suffix |-> ".EPUB"], [stem |-> "notes", suffix |-> ".txt"] }

Suffixes == { fn.suffix : fn \in Filenames } \cup {".m4b"}

\* str.lower() on the suffixes in use
Lower(suffix) == IF suffix = ".EPUB" THEN ".epub" ELSE suffix

\* line 80: file.filename.lower().endswith(".epub")
EndsWithEpub(fn) == Lower(fn.suffix) = ".epub"

JobDir(job_id) == "data/" \o job_id

PathIn(job_id, stem, suffix) == JobDir(job_id) \o "/" \o stem \o suffix

\* line 87: job_dir / file.filename
EpubPath(job_id, fn) == PathIn(job_id, fn.stem, fn.suffix)

\* the directory, stem and suffix a path of a job is made of
PathParts(path) ==
    CHOOSE c \in JobIds \X { fn.stem : fn \in Filenames } \X Suffixes :
        PathIn(c[1], c[2], c[3]) = path

\* line 159: Path(epub_path).with_suffix(".m4b")
WithSuffix(path, suffix) == PathIn(PathParts(path)[1], PathParts(path)[2], suffix)

\* line 160: Path(epub_path).parent / "work"
WorkDirOf(path) == JobDir(PathParts(path)[1]) \o "/work"

\* the EPUB read at epub_path
EpubAt(ups, path) ==
    ups[CHOOSE id \in DOMAIN ups : EpubPath(id, ups[id].filename) = path].book

\* line 85: job_dir.mkdir(parents=True) raises when the directory exists
JobDirTakenNever(ups, job_id) == FALSE

JobDirTaken(ups, job_id) == job_id \in DOMAIN ups

\* line 134: a convert request is turned down unless the job is uploaded
NeverRejected(job) == FALSE

Rejected(job) == job.status # "uploaded"

Response(op, job_id, code, body) ==
    [op |-> op, job_id |-> job_id, code |-> code, body |-> body]

\* lines 242-243: the job without its cover bytes
SafeJob(job) ==
    [k \in (DOMAIN job \ {"cover_image"}) \cup {"has_cover"} |->
        IF k = "has_cover" THEN job.cover_image # None ELSE job[k]]

(***************************************************************************)
(* tts/__init__.py: the engine registry.  reg is ENGINE_REGISTRY, as the   *)
(* sequence of its keys in order of registration.                          *)
(***************************************************************************)
\* the registry once _import_engines has run with piper-tts installed
ImportedEngines == <<"edge", "kokoro", "piper">>

\* ", ".join(keys)
RECURSIVE JoinKeys(_)
JoinKeys(keys) ==
    IF keys = <<>> THEN <<>>
    ELSE IF Len(keys) = 1 THEN keys
    ELSE <<Head(keys), ", ">> \o JoinKeys(Tail(keys))

\* line 19: ", ".join(ENGINE_REGISTRY.keys()) or "(nessuno)"
Available(reg) == IF JoinKeys(reg) = <<>> THEN <<"(nessuno)">> ELSE JoinKeys(reg)

\* the message of the ValueError, in its parts
UnknownEngineMessage(name, available) ==
    <<"Engine sconosciuto '", name, "'. Disponibili: ">> \o available

GetEngineOrFirst(reg, name) ==
    [registry |-> reg, exc |-> NoExc, msg |-> None,
     engine |-> IF \E k \in 1..Len(reg) : reg[k] = name THEN name ELSE reg[1]]

\* get_engine(name): the engine made, or the ValueError raised, and the
\* registry afterwards
GetEngine(reg, name) ==
    IF \E k \in 1..Len(reg) : reg[k] = name
    THEN [registry |-> reg, exc |-> NoExc, msg |-> None, engine |-> name]
    ELSE [registry |-> reg, exc |-> "ValueError",
          msg |-> Some(UnknownEngineMessage(name, Available(reg))), engine |-> ""]

(***************************************************************************)
(* run_conversion, the body of a job's background thread.  A thread th     *)
(* holds what the closure captured (job_id, the job copy read by           *)
(* start_convert, the engine key of the request), its position pc, the     *)
(* call of convert it makes and the exception it caught.                   *)
(***************************************************************************)
RequestEngines == {"edge", "espeak"}

NewThread(job_id, job, engine) ==
    [job_id |-> job_id, job |-> job, engine |-> engine, pc |-> "start",
     run |-> None, err |-> NoExc, msg |-> None]

\* lines 146-172: check_ffmpeg, get_engine, engine.initialize, then the
\* call of convert begins
Prepare(th, ups, reg) ==
    LET got == GetEngine(reg, th.engine)
    IN  { [th |-> [th EXCEPT !.pc = "failed", !.err = "RuntimeError"],
           registry |-> reg] } \cup
        (IF got.exc # NoExc
         THEN { [th |-> [th EXCEPT !.pc = "failed", !.err = got.exc, !.msg = got.msg],
                 registry |-> got.registry] }
         ELSE { [th |-> [th EXCEPT !.pc = "failed", !.err = "RuntimeError"],
                 registry |-> got.registry],
                [th |-> [th EXCEPT
                           !.pc = "convert",
                           !.run = Some(NewRun(EpubAt(ups, th.job.epub_path),
                                               WithSuffix(th.job.epub_path, ".m4b"),
                                               got.engine, TRUE,
                                               Some(WorkDirOf(th.job.epub_path))))],
                 registry |-> got.registry] })

Converting(th) == th.pc = "convert" /\ ~Ended(th.run[1])

Returned(th) == th.pc = "convert" /\ th.run[1].pc = "returned"

\* what is raised and is no Exception (a BaseException only: SystemExit,
\* KeyboardInterrupt, asyncio.CancelledError), as ConvInterrupt names it
NotException(exc) == exc = "KeyboardInterrupt"

\* `except Exception`: the exceptions of check_ffmpeg, get_engine,
\* initialize and convert
Caught(th) ==
    \/ th.pc = "failed"
    \/ (th.pc = "convert" /\ th.run[1].pc = "raised" /\ ~NotException(th.run[1].exc))

\* what `except Exception` lets through: run_conversion ends with it
Escaped(th) ==
    th.pc = "convert" /\ th.run[1].pc = "raised" /\ NotException(th.run[1].exc)

\* str(e)
CaughtError(th) ==
    IF th.pc = "failed" THEN (IF th.msg # None THEN th.msg[1] ELSE th.err)
    ELSE th.run[1].exc

(***************************************************************************)
(* The web application: clients upload EPUBs, ask for conversions and read *)
(* job snapshots while the conversion threads run.  A request handler runs *)
(* on the event loop without another handler in between; the threads       *)
(* interleave with the handlers and with each other at every JobManager    *)
(* call and every step of convert.                                         *)
(***************************************************************************)
WebBooks ==
    { Book(<<TextA, TextB>>, Some(PngMagic)), Book(<<NoText>>, None) }

InitWeb ==
    /\ CliIdle
    /\ MgrIdle
    /\ jobs = [id \in {} |-> None]
    /\ uploads = [id \in {} |-> None]
    /\ threads = <<>>
    /\ resp = None
    /\ registry = ImportedEngines
    /\ world = Some([fs |-> [d \in {} |-> NoFiles], out |-> NoFiles, tmp |-> 0])
    /\ world0 = world
    /\ run = None
    /\ runs = <<>>
    /\ ParseIdle
    /\ FFIdle
    /\ FnIdle

convVars == <<book, parsed, ffIn, ffOut, run, world0, runs, fnVars, report, mgr>>

\* lines 100-108: the cover stored with the job
UploadCovers(metadata) ==
    IF HasCover(metadata) THEN {metadata.cover_image} ELSE {None, Some(OnlineCover)}

\* POST /api/upload
Upload ==
    /\ \E fn \in Filenames :
          IF ~EndsWithEpub(fn)
          THEN /\ resp' = Some(Response("upload", "", 400, None))
               /\ UNCHANGED <<jobs, uploads>>
          ELSE \E id \in JobIds :
                  IF JobDirTaken(uploads, id)
                  THEN /\ resp' = Some(Response("upload", id, 500, None))
                       /\ UNCHANGED <<jobs, uploads>>
                  ELSE \E b \in WebBooks :
                          LET res == ExtractChapters(b.spine)
                          IN  /\ uploads' = Put(uploads, id, [filename |-> fn, book |-> b])
                              /\ IF res.status # "ok"
                                 THEN /\ resp' = Some(Response("upload", id, 400, None))
                                      /\ UNCHANGED jobs
                                 ELSE /\ \E cover \in UploadCovers(b.metadata) :
                                            jobs' = Create(jobs, id, EpubPath(id, fn),
                                                           b.metadata.title, b.metadata.author,
                                                           b.metadata.language,
                                                           Len(res.chapters), cover)
                                      /\ resp' = Some(Response("upload", id, 200, None))
    /\ UNCHANGED <<threads, world, registry, convVars>>

\* POST /api/convert/{job_id}
StartConvert ==
    \E id \in JobIds, engine \in RequestEngines :
        LET job == Get(jobs, id)
        IN  /\ IF job = None
               THEN /\ resp' = Some(Response("convert", id, 404, None))
                    /\ UNCHANGED <<jobs, threads>>
               ELSE IF Rejected(job[1])
               THEN /\ resp' = Some(Response("convert", id, 409, None))
                    /\ UNCHANGED <<jobs, threads>>
               ELSE /\ jobs' = UpdateStatus(jobs, id, "converting")
                    /\ threads' = Append(threads, NewThread(id, job[1], engine))
                    /\ resp' = Some(Response("convert", id, 202, None))
            /\ UNCHANGED <<uploads, world, registry, convVars>>

\* GET /api/jobs/{job_id}
GetJobStatus ==
    \E id \in JobIds :
        LET job == Get(jobs, id)
        IN  /\ resp' = IF job = None THEN Some(Response("jobs", id, 404, None))
                       ELSE Some(Response("jobs", id, 200, Some(SafeJob(job[1]))))
            /\ UNCHANGED <<jobs, uploads, threads, world, registry, convVars>>

\* GET /api/download/{job_id}
Download ==
    \E id \in JobIds :
        LET job == Get(jobs, id)
        IN  /\ resp' =
                  IF job = None \/ job[1].status # "done"
                  THEN Some(Response("download", id, 404, None))
                  ELSE IF job[1].output_path = None
                  THEN Some(Response("download", id, 500, None))
                  ELSE IF job[1].output_path[1] \notin DOMAIN world[1].out
                  THEN Some(Response("download", id, 404, None))
                  ELSE Some(Response("download", id, 200,
                                     Some(world[1].out[job[1].output_path[1]])))
            /\ UNCHANGED <<jobs, uploads, threads, world, registry, convVars>>

\* run_conversion up to the call of convert
WPrepare ==
    \E t \in DOMAIN threads :
        /\ threads[t].pc = "start"
        /\ \E o \in Prepare(threads[t], uploads, registry) :
              /\ threads' = [threads EXCEPT ![t] = o.th]
              /\ registry' = o.registry
        /\ resp' = None
        /\ UNCHANGED <<jobs, uploads, world, convVars>>

\* the call of convert thread t makes
RunOf(t) == threads[t].run[1]

\* a step of the thread's call of convert
WStep(t, outcomes) ==
    /\ Converting(threads[t])
    /\ \E o \in outcomes :
          /\ threads' = [threads EXCEPT ![t].run = Some(o.r)]
          /\ world' = Some(o.w)
    /\ resp' = None
    /\ UNCHANGED <<uploads, registry, convVars>>

WParse == \E t \in DOMAIN threads : WStep(t, ConvParse(RunOf(t), world[1])) /\ UNCHANGED jobs
WEnrich == \E t \in DOMAIN threads : WStep(t, ConvEnrich(RunOf(t), world[1])) /\ UNCHANGED jobs
WWorkDir == \E t \in DOMAIN threads : WStep(t, ConvWorkDir(RunOf(t), world[1])) /\ UNCHANGED jobs
WNextChapter == \E t \in DOMAIN threads : WStep(t, ConvNextChapter(RunOf(t), world[1])) /\ UNCHANGED jobs
WSynthReturn == \E t \in DOMAIN threads : WStep(t, ConvSynthReturn(RunOf(t), world[1])) /\ UNCHANGED jobs
WSynthRaise == \E t \in DOMAIN threads : WStep(t, ConvSynthRaise(RunOf(t), world[1])) /\ UNCHANGED jobs
WProbe == \E t \in DOMAIN threads : WStep(t, ConvProbe(RunOf(t), world[1])) /\ UNCHANGED jobs
WAssemble == \E t \in DOMAIN threads : WStep(t, ConvAssemble(RunOf(t), world[1])) /\ UNCHANGED jobs
WFinally == \E t \in DOMAIN threads : WStep(t, ConvFinally(RunOf(t), world[1])) /\ UNCHANGED jobs

\* lines 164-165: on_progress calls jobs.update_progress
WProgress ==
    \E t \in DOMAIN threads :
        /\ WStep(t, ConvProgress(RunOf(t), world[1]))
        /\ jobs' = LET args == ProgressArgs(RunOf(t))
                   IN  UpdateProgress(jobs, threads[t].job_id, args[1], args[2], args[3])

\* run_conversion announcing 'done' before it has recorded the output path
WStatusBeforeOutput ==
    \E t \in DOMAIN threads :
        /\ Returned(threads[t])
        /\ jobs' = UpdateStatus(jobs, threads[t].job_id, "done")
        /\ threads' = [threads EXCEPT ![t].pc = "status_done"]
        /\ resp' = None
        /\ UNCHANGED <<uploads, world, registry, convVars>>

\* line 174
WSetOutput ==
    \E t \in DOMAIN threads :
        /\ Returned(threads[t])
        /\ jobs' = SetOutput(jobs, threads[t].job_id, threads[t].run[1].output_path)
        /\ threads' = [threads EXCEPT ![t].pc = "status_done"]
        /\ resp' = None
        /\ UNCHANGED <<uploads, world, registry, convVars>>

\* line 175
WStatusDone ==
    \E t \in DOMAIN threads :
        /\ threads[t].pc = "status_done"
        /\ jobs' = UpdateStatus(jobs, threads[t].job_id, "done")
        /\ threads' = [threads EXCEPT ![t].pc = "ended"]
        /\ resp' = None
        /\ UNCHANGED <<uploads, world, registry, convVars>>

\* lines 177-179
WSetError ==
    \E t \in DOMAIN threads :
        /\ Caught(threads[t])
        /\ jobs' = SetError(jobs, threads[t].job_id, CaughtError(threads[t]))
        /\ threads' = [threads EXCEPT ![t].pc = "status_error"]
        /\ resp' = None
        /\ UNCHANGED <<uploads, world, registry, convVars>>

\* line 180
WStatusError ==
    \E t \in DOMAIN threads :
        /\ threads[t].pc = "status_error"
        /\ jobs' = UpdateStatus(jobs, threads[t].job_id, "error")
        /\ threads' = [threads EXCEPT ![t].pc = "ended"]
        /\ resp' = None
        /\ UNCHANGED <<uploads, world, registry, convVars>>

NextWeb ==
    \/ Upload
    \/ StartConvert
    \/ GetJobStatus
    \/ Download
    \/ WPrepare
    \/ WParse
    \/ WEnrich
    \/ WWorkDir
    \/ WNextChapter
    \/ WSynthReturn
    \/ WSynthRaise
    \/ WProbe
    \/ WProgress
    \/ WAssemble
    \/ WFinally
    \/ WSetOutput
    \/ WStatusDone
    \/ WSetError
    \/ WStatusError

SpecWeb == InitWeb /\ [][NextWeb]_vars

(***************************************************************************)
(* What the claims about convert read.                                     *)
(***************************************************************************)
Elems(seq) == { seq[k] : k \in 1..Len(seq) }

Occurrences(seq, x) == Cardinality({ k \in 1..Len(seq) : seq[k] = x })

FileAt(w, path) ==
    IF Exists(w, path.dir, path.name) THEN Some(w.fs[path.dir][path.name]) ELSE None

TempDirs(w) == { TempName(k) : k \in 1..w.tmp }

(***************************************************************************)
(* C1: in convert, engine.synthesize is called for a chapter exactly when, *)
(* as the loop reaches the chapter, no non-empty file stands at its audio  *)
(* path, and then once; a non-empty file found there is the one probed,    *)
(* whoever wrote it.                                                       *)
(***************************************************************************)
C1_SynthesizeIffNotCached ==
    run # None =>
        LET r == run[1]
        IN  /\ \A k \in 1..Len(r.reached) :
                  LET found == r.reached[k].file # None /\ r.reached[k].file[1].n > 0
                  IN  /\ Occurrences(r.synthCalls, r.reached[k].index)
                            = IF found THEN 0 ELSE 1
                      /\ (found /\ k <= Len(r.probed)) => r.probed[k] = r.reached[k].file[1]
            /\ Elems(r.synthCalls) \subseteq { r.reached[k].index : k \in 1..Len(r.reached) }

C1_Witness ==
    /\ run # None
    /\ run[1].pc = "returned"
    /\ run[1].engine = "piper"
    /\ Len(run[1].reached) = 2
    /\ run[1].reached[1].file = Some(Audio("kokoro", 2, TRUE))
    /\ run[1].reached[2].file = Some(Audio("manual", 0, FALSE))
    /\ run[1].synthCalls = <<1>>

(***************************************************************************)
(* C2: after a first call on a fresh named working directory was           *)
(* interrupted with chapters 0..k completed, the second call synthesizes   *)
(* none of the chapters 0..k and hands build_m4b the chapter audio files   *)
(* and durations an uninterrupted call would have.                         *)
(***************************************************************************)
UninterruptedAudios(r) ==
    [k \in 1..Len(r.chapters) |->
        ChapterAudio(r.chapters[k],
                     [dir |-> r.work_path,
                      name |-> AudioName(r.chapters[k].index, OutputFormat(r.engine))],
                     ProbeDurationMs(FullAudio(r.engine, r.chapters[k].text)))]

UninterruptedTracks(r) ==
    [k \in 1..Len(r.chapters) |-> Some(FullAudio(r.engine, r.chapters[k].text))]

FreshWorkDir == \A d \in DOMAIN world0[1].fs : world0[1].fs[d] = NoFiles

C2_Resume ==
    (run # None /\ runs # <<>> /\ runs[1].exc = "KeyboardInterrupt"
        /\ runs[1].completed >= 1 /\ FreshWorkDir) =>
        LET r == run[1]
        IN  /\ \A c \in Elems(r.synthCalls) : c >= runs[1].completed
            /\ \A k \in 1..Len(r.buildCalls) :
                  /\ r.buildCalls[k].chapter_audios = UninterruptedAudios(r)
                  /\ r.buildCalls[k].tracks = UninterruptedTracks(r)

C8_SynthesisFailureAborts ==
    (run # None /\ run[1].exc = "RuntimeError") =>
        LET r == run[1]
            i == CurrentChapter(r).index
        IN  /\ r.pc \in {"finally", "raised"}
            /\ r.synthCalls # <<>> /\ r.synthCalls[Len(r.synthCalls)] = i
            /\ \A c \in Elems(r.synthCalls) : c <= i
            /\ \A c \in Elems(r.probeCalls) : c < i
            /\ r.buildCalls = <<>>
            /\ Truthy(r.work_dir) =>
                  \A k \in 1..Len(r.chapter_audios) :
                      FileAt(world[1], r.chapter_audios[k].audio_path) = Some(r.probed[k])

C8_Witness ==
    /\ run # None
    /\ run[1].pc = "raised"
    /\ run[1].exc = "RuntimeError"
    /\ Truthy(run[1].work_dir)
    /\ Len(run[1].chapters) = 2
    /\ Len(run[1].chapter_audios) = 1
    /\ run[1].synthCalls = <<0, 1>>

(***************************************************************************)
(* C9: with a progress callback, the calls made so far are                 *)
(* (1, N, title of chapter 0), (2, N, title of chapter 1), ... one per     *)
(* chapter completed, each made after the chapter's audio was probed; a    *)
(* call that returns has made exactly N of them.                           *)
(***************************************************************************)
C9_ProgressOncePerChapter ==
    (run # None /\ run[1].on_progress) =>
        LET r == run[1]
            n == Len(r.progressCalls)
        IN  /\ r.progressCalls =
                  [k \in 1..n |-> <<k, Len(r.chapters), r.chapters[k].title>>]
            /\ Len(r.probed) - 1 <= n /\ n <= Len(r.probed)
            /\ r.pc \in {"loop", "synth", "probe", "assemble", "returned"} => n = Len(r.probed)
            /\ r.pc = "returned" => n = Len(r.chapters)

C9_Witness ==
    /\ run # None
    /\ run[1].pc = "returned"
    /\ run[1].on_progress
    /\ Len(run[1].progressCalls) = 2
    /\ run[1].progressCalls[2][1] = 2

(***************************************************************************)
(* C3: _build_ffmetadata emits exactly one marker per chapter audio, in    *)
(* input order; marker i starts at the sum of the durations before it and  *)
(* ends that chapter's duration later, so marker 0 starts at 0, each       *)
(* marker starts where the previous one ends and the last one ends at the  *)
(* sum of all durations.                                                   *)
(***************************************************************************)
C3_CumulativeMarkers ==
    ffOut # None =>
        LET cas == ffIn[1].chapter_audios
            ms == Markers(ffOut[1])
        IN  /\ Len(ms) = Len(cas)
            /\ \A i \in 1..Len(cas) :
                  /\ ms[i].start = <<"S", "T", "A", "R", "T", "=">>
                                      \o Decimal(SumDurations(cas, i - 1))
                  /\ ms[i].end = <<"E", "N", "D", "=">>
                                      \o Decimal(SumDurations(cas, i - 1) + cas[i].duration_ms)
                  /\ ms[i].title = <<"t", "i", "t", "l", "e", "=">> \o Escape(cas[i].chapter.title)
            /\ Len(cas) > 0 =>
                  /\ ms[1].start = <<"S", "T", "A", "R", "T", "=", "0">>
                  /\ ms[Len(cas)].end = <<"E", "N", "D", "=">>
                                      \o Decimal(SumDurations(cas, Len(cas)))
            /\ \A i \in 1..(Len(cas) - 1) :
                  SubSeq(ms[i + 1].start, 7, Len(ms[i + 1].start))
                      = SubSeq(ms[i].end, 5, Len(ms[i].end))

C3_Witness ==
    /\ ffOut # None
    /\ Len(ffIn[1].chapter_audios) = 3
    /\ ffIn[1].chapter_audios[1].duration_ms = 7
    /\ ffIn[1].chapter_audios[2].duration_ms = 30000
    /\ Markers(ffOut[1])[3].start = <<"S", "T", "A", "R", "T", "=", "3", "0", "0", "0", "7">>

(***************************************************************************)
(* C10: the chapters parsing returns carry the indices 0..N-1 in spine     *)
(* order, without gap or duplicate; a skipped spine entry (no item, no     *)
(* body, empty text) takes no index.                                       *)
(***************************************************************************)
RECURSIVE UsableTexts(_)
UsableTexts(spine) ==
    IF spine = <<>> THEN <<>>
    ELSE (IF Head(spine).item /\ Head(spine).body /\ Head(spine).text # <<>>
          THEN <<Head(spine).text>> ELSE <<>>) \o UsableTexts(Tail(spine))

C10_DenseIndices ==
    parsed # None =>
        LET chapters == parsed[1].chapters
        IN  /\ \A k \in 1..Len(chapters) : chapters[k].index = k - 1
            /\ [k \in 1..Len(chapters) |-> chapters[k].text] = UsableTexts(book[1])
            /\ (parsed[1].status = "ok") = (Len(chapters) > 0)

C10_Witness ==
    /\ parsed # None
    /\ Len(book[1]) = 3
    /\ Skipped(book[1][1])
    /\ ~Skipped(book[1][2])
    /\ Skipped(book[1][3]) = FALSE
    /\ Len(parsed[1].chapters) = 2

(***************************************************************************)
(* What the claims about the web application read.                         *)
(***************************************************************************)
Forward(a, b) ==
    \/ a = b
    \/ a = "uploaded" /\ b = "converting"
    \/ a = "converting" /\ b \in {"done", "error"}

WorkersOf(id) == { t \in DOMAIN threads : threads[t].job_id = id }

Synthesizing(th) == th.pc = "convert" /\ th.run[1].pc = "synth"

C5_OneWorkerPerJob ==
    /\ [](\A id \in JobIds :
             /\ Cardinality(WorkersOf(id))
                   = IF id \in DOMAIN jobs /\ jobs[id].status # "uploaded" THEN 1 ELSE 0
             /\ Cardinality({ t \in WorkersOf(id) : Synthesizing(threads[t]) }) <= 1)
    /\ [][(resp' # None /\ resp'[1].op = "convert" /\ resp'[1].code # 202)
              => threads' = threads]_vars

C5_Witness ==
    /\ resp = Some(Response("convert", "j1", 409, None))
    /\ \E t \in WorkersOf("j1") : Synthesizing(threads[t])
    /\ \E t \in WorkersOf("j2") : Synthesizing(threads[t])

(***************************************************************************)
(* C6: in the job a GET /api/jobs/{job_id} returns, output_path is set     *)
(* only with status done and error is set only with status error.          *)
(***************************************************************************)
C6_SnapshotFields ==
    (resp # None /\ resp[1].op = "jobs" /\ resp[1].code = 200) =>
        LET job == resp[1].body[1]
        IN  /\ job.output_path # None => job.status = "done"
            /\ job.error # None => job.status = "error"

(***************************************************************************)
(* C11: every chapter convert gets from the parser has text that is not    *)
(* empty, even after stripping; the chapter texts are the non-empty texts  *)
(* of the spine in order, so an entry with empty text is no chapter; and   *)
(* every synthesize call is for a chapter with non-empty text.             *)
(***************************************************************************)
C11_NoEmptyChapter ==
    run # None =>
        LET r == run[1]
        IN  /\ \A k \in 1..Len(r.chapters) : Strip(r.chapters[k].text) # <<>>
            /\ r.pc \notin {"start"} /\ r.chapters # <<>> =>
                  [k \in 1..Len(r.chapters) |-> r.chapters[k].text] = UsableTexts(r.book.spine)
            /\ \A k \in 1..Len(r.synthCalls) :
                  r.chapters[r.synthCalls[k] + 1].text # <<>>

C11_Witness ==
    /\ run # None
    /\ run[1].pc = "returned"
    /\ run[1].book.spine = <<NoText, TextB>>
    /\ Len(run[1].chapters) = 1
    /\ run[1].chapters[1].text = TextB.text
    /\ run[1].synthCalls = <<0>>

(***************************************************************************)
(* C12: when the spine of the book has no usable entry, the parser raises  *)
(* ValueError and the call of convert raises it in turn with the file      *)
(* system as it was (no working directory made, named or temporary), no    *)
(* synthesize call, no probe and no build_m4b call; and ValueError is      *)
(* raised for no other book.                                               *)
(***************************************************************************)
C12_NoChaptersAborts ==
    run # None =>
        LET r == run[1]
        IN  /\ UsableTexts(r.book.spine) = <<>> =>
                  /\ r.pc \in {"start", "raised"}
                  /\ r.pc = "raised" => r.exc = "ValueError"
                  /\ r.work_path = ""
                  /\ world = world0
                  /\ r.synthCalls = <<>> /\ r.probeCalls = <<>> /\ r.buildCalls = <<>>
            /\ r.exc = "ValueError" => UsableTexts(r.book.spine) = <<>>

C12_Witness ==
    /\ run # None
    /\ run[1].pc = "raised"
    /\ run[1].exc = "ValueError"
    /\ run[1].book.spine = <<NoText>>
    /\ run[1].work_dir = None
    /\ world[1].tmp = 0

(***************************************************************************)
(* C13: a conversion thread whose engine key is not registered never calls *)
(* convert, so never synthesize; the ValueError of get_engine names the    *)
(* key asked for and lists the registered keys in order; once the thread   *)
(* has ended its job has status error and that message (or the message of  *)
(* the ffmpeg check that failed first) as its error; ValueError is raised  *)
(* for no registered key; and no step changes the registry.                *)
(***************************************************************************)
Registered(reg, name) == \E k \in 1..Len(reg) : reg[k] = name

\* the keys a message of get_engine lists after "Disponibili: "
ListedKeys(msg) ==
    LET available == SubSeq(msg, 4, Len(msg))
    IN  [k \in 1..((Len(available) + 1) \div 2) |-> available[2 * k - 1]]

C13_UnknownEngine ==
    /\ [](\A t \in DOMAIN threads :
            LET th == threads[t]
            IN  /\ ~Registered(registry, th.engine) =>
                      /\ th.run = None
                      /\ th.pc \in {"start", "failed", "status_error", "ended"}
                      /\ th.pc # "start" => th.err \in {"ValueError", "RuntimeError"}
                      /\ th.err = "ValueError" =>
                            /\ th.msg # None
                            /\ th.msg[1][2] = th.engine
                            /\ ListedKeys(th.msg[1]) = registry
                      /\ th.pc \in {"status_error", "ended"} =>
                            jobs[th.job_id].error =
                                IF th.err = "ValueError" THEN th.msg ELSE Some(th.err)
                      /\ th.pc = "ended" => jobs[th.job_id].status = "error"
                /\ th.err = "ValueError" => ~Registered(registry, th.engine))
    /\ [][registry' = registry]_vars

C13_Witness ==
    \E t \in DOMAIN threads :
        /\ threads[t].engine = "espeak"
        /\ threads[t].pc = "ended"
        /\ threads[t].err = "ValueError"
        /\ jobs[threads[t].job_id].status = "error"
        /\ jobs[threads[t].job_id].error =
              Some(<<"Engine sconosciuto '", "espeak", "'. Disponibili: ",
                     "edge", ", ", "kokoro", ", ", "piper">>)

(***************************************************************************)
(* _escape alone: any string of at most MaxEscapeLen characters over the   *)
(* characters _escape treats and an ordinary one.                          *)
(***************************************************************************)
MaxEscapeLen == 4

EscapeAlphabet == {"=", ";", "#", "\\", "\n", "a"}

InitEscape ==
    /\ CliIdle
    /\ MgrIdle
    /\ arg \in { Some(v) : v \in SeqsUpTo(EscapeAlphabet, MaxEscapeLen) }
    /\ result = None
    /\ ParseIdle
    /\ FFIdle
    /\ ConvIdle
    /\ WebIdle

\* _escape(value)
ApplyEscape ==
    /\ arg # None
    /\ result = None
    /\ result' = Some(Escape(arg[1]))
    /\ UNCHANGED <<book, parsed, ffIn, ffOut, run, world, world0, runs, webVars, arg, report, mgr>>

NextEscape == ApplyEscape

SpecEscape == InitEscape /\ [][NextEscape]_vars

\* Reversing the escape: a backslash stands for the character after it.
RECURSIVE Unescape(_)
Unescape(s) ==
    IF s = <<>> THEN <<>>
    ELSE IF Head(s) = "\\" /\ Len(s) >= 2
    THEN <<s[2]>> \o Unescape(SubSeq(s, 3, Len(s)))
    ELSE <<Head(s)>> \o Unescape(Tail(s))

\* Whether every backslash of s opens a pair and every other treated
\* character is the second of a pair.
RECURSIVE WellEscaped(_)
WellEscaped(s) ==
    IF s = <<>> THEN TRUE
    ELSE IF Head(s) = "\\" THEN Len(s) >= 2 /\ WellEscaped(SubSeq(s, 3, Len(s)))
    ELSE Head(s) \notin {"=", ";", "#", "\n"} /\ WellEscaped(Tail(s))

Treated(value) ==
    Cardinality({ k \in 1..Len(value) : value[k] \in {"=", ";", "#", "\\", "\n"} })

(***************************************************************************)
(* C14: reversing the escape of _escape(value) gives value back; in        *)
(* _escape(value) every backslash opens a pair and each of = ; # newline   *)
(* is the second character of a pair; and each treated character of value  *)
(* got exactly one backslash, so none is escaped twice.                    *)
(***************************************************************************)
C14_EscapeReversible ==
    result # None =>
        /\ Unescape(result[1]) = arg[1]
        /\ WellEscaped(result[1])
        /\ Len(result[1]) = Len(arg[1]) + Treated(arg[1])

C14_Witness ==
    /\ arg = Some(<<"\\", "=", "a", "\n">>)
    /\ result = Some(<<"\\", "\\", "\\", "=", "a", "\\", "\n">>)

(***************************************************************************)
(* C15: when build_m4b has raised and convert with it, the file at the     *)
(* output path is not a partly written one: there is none, or a complete   *)
(* one.                                                                    *)
(***************************************************************************)
C15_NoPartialOutput ==
    (run # None /\ run[1].pc = "raised" /\ run[1].buildCalls # <<>>) =>
        \A path \in DOMAIN world[1].out : world[1].out[path].complete

(***************************************************************************)
(* C16                                                                     *)
(***************************************************************************)
Interrupted(r) == r.exc = "KeyboardInterrupt"

Failed(r) == r.exc \notin {NoExc, "KeyboardInterrupt"}

SaysInterrupted(rep) == "Conversione interrotta." \in Elems(rep.stdout)

SaysError(rep) == rep.log # <<>>

\* The chapter files the call recorded are in the working directory as they
\* were when it probed them, and so is every file that was there before.
ResumableStateKept(r, w, w0) ==
    /\ r.work_path = r.work_dir[1]
    /\ r.work_path \in DOMAIN w.fs
    /\ \A k \in 1..Len(r.chapter_audios) :
          LET path == r.chapter_audios[k].audio_path
          IN  /\ path.dir = r.work_path
              /\ Exists(w, path.dir, path.name)
              /\ w.fs[path.dir][path.name] = r.probed[k]
    /\ r.work_path \in DOMAIN w0.fs =>
          \A name \in DOMAIN w0.fs[r.work_path] : Exists(w, r.work_path, name)

C16_WitnessFailed ==
    /\ run # None /\ report # None
    /\ Failed(run[1])

(***************************************************************************)
(* C17                                                                     *)
(***************************************************************************)
SameButCover(m, given) ==
    /\ m.title = given.title
    /\ m.author = given.author
    /\ m.language = given.language

\* C17: convert calls _enrich_metadata once, after parsing and before it
\* reaches the first chapter; the call looks up a cover online only if the
\* parsed metadata has none; if no lookup returns a cover (they raise or
\* return nothing) the run goes on with the parsed metadata unchanged; if one
\* does, the metadata used has the parsed title, author and language and the
\* cover found.
C17_EnrichOnce ==
    run # None =>
        LET r == run[1]
            calls == r.enrichCalls
        IN  /\ Len(calls) <= 1
            /\ r.pc \in {"start", "enrich"} => calls = <<>>
            /\ (r.reached # <<>> \/ r.work_path # "") => Len(calls) = 1
            /\ r.pc = "workdir" => (Len(calls) = 1 /\ r.exc = NoExc)
            /\ calls = <<>> => r.metadata = r.book.metadata
            /\ calls # <<>> =>
                  LET c == calls[1]
                  IN  /\ c.given = r.book.metadata
                      /\ r.work_path = "" => r.pc = "workdir"
                      /\ HasCover(c.given) <=> c.lookups = <<>>
                      /\ "cover" \notin Elems(c.lookups) => r.metadata = c.given
                      /\ "cover" \in Elems(c.lookups) =>
                            /\ SameButCover(r.metadata, c.given)
                            /\ r.metadata.cover_image = Some(OnlineCover)
                            /\ r.metadata # c.given

\* A lookup raised, the run went on with the parsed metadata and completed.
C17_Witness ==
    /\ run # None
    /\ run[1].enrichCalls # <<>>
    /\ "raised" \in Elems(run[1].enrichCalls[1].lookups)
    /\ run[1].pc = "returned"
    /\ run[1].reached # <<>>
    /\ run[1].metadata = run[1].book.metadata

(***************************************************************************)
(* epub_parser.py: EpubParser._clean_for_tts, applied on its own to a      *)
(* text and then to its own result.  A text is a sequence of characters;   *)
(* the characters outside ASCII are written by their code point ("u2026"). *)
(***************************************************************************)
MaxCleanLen == 4

CleanAlphabet == {".", "-", ",", " ", "\n", "a", "u2026"}

\* \s
Space == {" ", "\n", "\t"}

\* [A-ZÀ-Úa-zà-ú], as far as the alphabet goes
Letter == {"a", "b", "A", "B"}

\* lines 145-156: the replacements dict, applied character by character (no
\* replacement produces a character that a later one replaces)
Replacement(c) ==
    CASE c \in {"u2018", "u2019"} -> <<"'">>
      [] c \in {"u201C", "u201D"} -> <<"\"">>
      [] c \in {"u2013", "u2014"} -> <<" ">>
      [] c = "u2026" -> <<".", ".", ".">>
      [] c = "u00A0" -> <<" ">>
      [] OTHER -> <<c>>

RECURSIVE Normalize(_)
Normalize(s) ==
    IF s = <<>> THEN <<>> ELSE Replacement(Head(s)) \o Normalize(Tail(s))

\* "\x00ELLIPSIS\x00": no pattern of the function matches inside it or across
\* its ends (it starts and ends with \x00), so it is one character here
Placeholder == "\\x00ELLIPSIS\\x00"

\* line 159: text.replace("...", placeholder), leftmost first
RECURSIVE Protect(_)
Protect(s) ==
    IF s = <<>> THEN <<>>
    ELSE IF Len(s) >= 3 /\ SubSeq(s, 1, 3) = <<".", ".", ".">>
    THEN <<Placeholder>> \o Protect(SubSeq(s, 4, Len(s)))
    ELSE <<Head(s)>> \o Protect(Tail(s))

\* line 183: text.replace(placeholder, "...")
RECURSIVE Restore(_)
Restore(s) ==
    IF s = <<>> THEN <<>>
    ELSE (IF Head(s) = Placeholder THEN <<".", ".", ".">> ELSE <<Head(s)>>)
         \o Restore(Tail(s))

\* The position after the longest run of characters of set that starts at p:
\* what a greedy set* consumes from p.
RECURSIVE SkipIn(_, _, _)
SkipIn(s, p, set) ==
    IF p <= Len(s) /\ s[p] \in set THEN SkipIn(s, p + 1, set) ELSE p

\* ^ and $ under re.MULTILINE, at the position before s[p]
LineStart(s, p) == p = 1 \/ s[p - 1] = "\n"

LineEnd(s, p) == p > Len(s) \/ s[p] = "\n"

\* line 163: (?:^|(?<=\s))\.(?=\s|$) matches the character at i
IsolatedPeriod(s, i) ==
    /\ s[i] = "."
    /\ (i = 1 \/ s[i - 1] \in Space)
    /\ (i = Len(s) \/ s[i + 1] \in Space)

RECURSIVE DropIsolatedFrom(_, _)
DropIsolatedFrom(s, i) ==
    IF i > Len(s) THEN <<>>
    ELSE (IF IsolatedPeriod(s, i) THEN <<>> ELSE <<s[i]>>) \o DropIsolatedFrom(s, i + 1)

\* [.\-–—,;:] once the dashes outside ASCII have been replaced
LinePunct == {".", "-", ",", ";", ":"}

\* line 166: where the match of ^\s*[.\-–—,;:]+\s*$ that starts at p ends
\* (the position after it), or 0 if there is none.  The second \s* gives
\* back characters until $ matches.
PunctLineEnd(s, p) ==
    LET a == SkipIn(s, p, Space)
        b == SkipIn(s, a, LinePunct)
        c == SkipIn(s, b, Space)
        ends == { q \in b..c : LineEnd(s, q) }
    IN  IF ~LineStart(s, p) \/ b = a \/ ends = {} THEN 0
        ELSE CHOOSE q \in ends : \A q2 \in ends : q2 <= q

RECURSIVE DropPunctLines(_, _)
DropPunctLines(s, p) ==
    IF p > Len(s) THEN <<>>
    ELSE IF PunctLineEnd(s, p) # 0 THEN DropPunctLines(s, PunctLineEnd(s, p))
    ELSE <<s[p]>> \o DropPunctLines(s, p + 1)

\* line 169: ([.!?])([A-ZÀ-Úa-zà-ú]) -> \1 \2
RECURSIVE SpaceAfterSentence(_, _)
SpaceAfterSentence(s, i) ==
    IF i > Len(s) THEN <<>>
    ELSE (IF s[i] \in {".", "!", "?"} /\ i < Len(s) /\ s[i + 1] \in Letter
          THEN <<s[i], " ">> ELSE <<s[i]>>) \o SpaceAfterSentence(s, i + 1)

\* lines 173-174: where the match of [-–—]\s*MARK\s* that starts at p ends, or 0
DashMarkEnd(s, p, mark) ==
    IF s[p] # "-" THEN 0
    ELSE LET a == SkipIn(s, p + 1, Space)
         IN  IF a <= Len(s) /\ s[a] = mark THEN SkipIn(s, a + 1, Space) ELSE 0

RECURSIVE DashMark(_, _, _)
DashMark(s, p, mark) ==
    IF p > Len(s) THEN <<>>
    ELSE IF DashMarkEnd(s, p, mark) # 0
    THEN <<mark, " ">> \o DashMark(s, DashMarkEnd(s, p, mark), mark)
    ELSE <<s[p]>> \o DashMark(s, p + 1, mark)

\* line 177: where the match of \s*\.\s*[-–—]\s* that starts at p ends, or 0
PeriodDashEnd(s, p) ==
    LET a == SkipIn(s, p, Space)
        b == SkipIn(s, a + 1, Space)
    IN  IF a <= Len(s) /\ s[a] = "." /\ b <= Len(s) /\ s[b] = "-"
        THEN SkipIn(s, b + 1, Space) ELSE 0

RECURSIVE PeriodDash(_, _)
PeriodDash(s, p) ==
    IF p > Len(s) THEN <<>>
    ELSE IF PeriodDashEnd(s, p) # 0
    THEN <<".", " ">> \o PeriodDash(s, PeriodDashEnd(s, p))
    ELSE <<s[p]>> \o PeriodDash(s, p + 1)

\* line 180: where the match of ^\s*\.+\s* that starts at p ends, or 0
LeadingPeriodsEnd(s, p) ==
    LET a == SkipIn(s, p, Space)
        b == SkipIn(s, a, {"."})
    IN  IF ~LineStart(s, p) \/ b = a THEN 0 ELSE SkipIn(s, b, Space)

RECURSIVE DropLeadingPeriods(_, _)
DropLeadingPeriods(s, p) ==
    IF p > Len(s) THEN <<>>
    ELSE IF LeadingPeriodsEnd(s, p) # 0
    THEN DropLeadingPeriods(s, LeadingPeriodsEnd(s, p))
    ELSE <<s[p]>> \o DropLeadingPeriods(s, p + 1)

\* line 186: " {2,}" -> " "
RECURSIVE SqueezeSpaces(_, _)
SqueezeSpaces(s, p) ==
    IF p > Len(s) THEN <<>>
    ELSE IF s[p] = " " THEN <<" ">> \o SqueezeSpaces(s, SkipIn(s, p, {" "}))
    ELSE <<s[p]>> \o SqueezeSpaces(s, p + 1)

\* line 187: \n{3,} -> \n\n
RECURSIVE SqueezeNewlines(_, _)
SqueezeNewlines(s, p) ==
    IF p > Len(s) THEN <<>>
    ELSE IF s[p] = "\n"
    THEN (IF SkipIn(s, p, {"\n"}) - p >= 3 THEN <<"\n", "\n">>
          ELSE SubSeq(s, p, SkipIn(s, p, {"\n"}) - 1))
         \o SqueezeNewlines(s, SkipIn(s, p, {"\n"}))
    ELSE <<s[p]>> \o SqueezeNewlines(s, p + 1)

\* EpubParser._clean_for_tts(text)
CleanForTts(text) ==
    LET t1 == Protect(Normalize(text))
        t2 == DropIsolatedFrom(t1, 1)
        t3 == DropPunctLines(t2, 1)
        t4 == SpaceAfterSentence(t3, 1)
        t5 == DashMark(t4, 1, ".")
        t6 == DashMark(t5, 1, ",")
        t7 == PeriodDash(t6, 1)
        t8 == DropLeadingPeriods(t7, 1)
        t9 == Restore(t8)
    IN  SqueezeNewlines(SqueezeSpaces(t9, 1), 1)

InitClean ==
    /\ arg \in { Some(v) : v \in SeqsUpTo(CleanAlphabet, MaxCleanLen) }
    /\ result = None
    /\ ParseIdle
    /\ FFIdle
    /\ ConvIdle
    /\ WebIdle
    /\ CliIdle
    /\ MgrIdle

\* _clean_for_tts(text)
CleanOnce ==
    /\ arg # None
    /\ result = None
    /\ result' = Some(<<CleanForTts(arg[1])>>)
    /\ UNCHANGED <<book, parsed, ffIn, ffOut, run, world, world0, runs, webVars, arg, report, mgr>>

\* _clean_for_tts applied to its own result
CleanAgain ==
    /\ result # None
    /\ Len(result[1]) = 1
    /\ result' = Some(Append(result[1], CleanForTts(result[1][1])))
    /\ UNCHANGED <<book, parsed, ffIn, ffOut, run, world, world0, runs, webVars, arg, report, mgr>>

NextClean == CleanOnce \/ CleanAgain

SpecClean == InitClean /\ [][NextClean]_vars

(***************************************************************************)
(* C18                                                                     *)
(***************************************************************************)
\* C18: cleaning a text that _clean_for_tts has already cleaned changes
\* nothing: the second result is the first.
C18_CleanIdempotent ==
    (result # None /\ Len(result[1]) = 2) => result[1][2] = result[1][1]

(***************************************************************************)
(* tts/edge_engine.py: EdgeTTSEngine._split_text, applied on its own.      *)
(***************************************************************************)
\* MAX_CHUNK_CHARS is 3000 in the source; the model scales it down with the
\* texts.
MAX_CHUNK_CHARS == 4

MaxTextLen == 7

SplitAlphabet == {"a", ".", " "}

\* [.!?…]
SentenceEnd == {".", "!", "?", "u2026"}

\* line 145: where the match of (?<=[.!?…])\s+ that starts at p ends (the
\* position after it), or 0 if there is none
SeparatorEnd(s, p) ==
    IF p > 1 /\ s[p - 1] \in SentenceEnd /\ s[p] \in Space
    THEN SkipIn(s, p, Space) ELSE 0

\* line 145: re.split: the pieces between the separators, from position p on,
\* the current piece starting at position from
RECURSIVE SplitFrom(_, _, _)
SplitFrom(s, from, p) ==
    IF p > Len(s) THEN <<SubSeq(s, from, Len(s))>>
    ELSE IF SeparatorEnd(s, p) # 0
    THEN <<SubSeq(s, from, p - 1)>>
         \o SplitFrom(s, SeparatorEnd(s, p), SeparatorEnd(s, p))
    ELSE SplitFrom(s, from, p + 1)

Sentences(text) == SplitFrom(text, 1, 1)

\* lines 150-155: the loop over the sentences, from sentence k on
RECURSIVE ChunkLoop(_, _, _, _)
ChunkLoop(sentences, k, chunks, current_chunk) ==
    IF k > Len(sentences) THEN [chunks |-> chunks, current_chunk |-> current_chunk]
    ELSE LET sentence == sentences[k]
         IN  IF Len(current_chunk) + Len(sentence) + 1 > MAX_CHUNK_CHARS
                /\ current_chunk # <<>>
             THEN ChunkLoop(sentences, k + 1,
                            Append(chunks, Strip(current_chunk)), sentence)
             ELSE ChunkLoop(sentences, k + 1, chunks,
                            IF current_chunk # <<>>
                            THEN current_chunk \o <<" ">> \o sentence
                            ELSE sentence)

\* EdgeTTSEngine._split_text(text)
SplitText(text) ==
    IF Len(text) <= MAX_CHUNK_CHARS THEN <<text>>
    ELSE LET end == ChunkLoop(Sentences(text), 1, <<>>, <<>>)
             chunks == IF Strip(end.current_chunk) # <<>>
                       THEN Append(end.chunks, Strip(end.current_chunk))
                       ELSE end.chunks
         IN  IF chunks # <<>> THEN chunks ELSE <<text>>

InitSplit ==
    /\ arg \in { Some(v) : v \in SeqsUpTo(SplitAlphabet, MaxTextLen) }
    /\ result = None
    /\ ParseIdle
    /\ FFIdle
    /\ ConvIdle
    /\ WebIdle
    /\ CliIdle
    /\ MgrIdle

\* _split_text(text)
ApplySplit ==
    /\ arg # None
    /\ result = None
    /\ result' = Some(SplitText(arg[1]))
    /\ UNCHANGED <<book, parsed, ffIn, ffOut, run, world, world0, runs, webVars, arg, report, mgr>>

NextSplit == ApplySplit

SpecSplit == InitSplit /\ [][NextSplit]_vars

(***************************************************************************)
(* C19                                                                     *)
(***************************************************************************)
RECURSIVE Flatten(_)
Flatten(seqs) == IF seqs = <<>> THEN <<>> ELSE Head(seqs) \o Flatten(Tail(seqs))

NotSpace(c) == c \notin Space

\* The characters of the text other than whitespace, in order.
Spoken(text) == SelectSeq(text, NotSpace)

WithinLimit(chunks) == \A k \in 1..Len(chunks) : Len(chunks[k]) <= MAX_CHUNK_CHARS

CoversText(chunks, text) == Spoken(Flatten(chunks)) = Spoken(text)

\* C19: every chunk _split_text returns is at most MAX_CHUNK_CHARS long, and
\* the chunks in order hold the whole text: its characters other than
\* whitespace, each once and in the original order.
C19_ChunksWithinLimit ==
    result # None => (WithinLimit(result[1]) /\ CoversText(result[1], arg[1]))

\* The half of C19 about losing nothing.
SplitLosesNothing ==
    result # None => (result[1] # <<>> /\ CoversText(result[1], arg[1]))

\* A text split into several chunks.
SplitInSeveral == result # None /\ Len(result[1]) >= 2

(***************************************************************************)
(* C20                                                                     *)
(***************************************************************************)
\* The chapter indices 0, 1, ... of the first n chapters.
FirstIndices(n) == [k \in 1..n |-> k - 1]

Ascending(seq) == \A j, k \in 1..Len(seq) : j < k => seq[j] < seq[k]

ReachedIndices(r) == [k \in 1..Len(r.reached) |-> r.reached[k].index]

\* The records are those of the first chapters, one each, in chapter order.
RecordsOfFirstChapters(chapter_audios, chapters) ==
    /\ Len(chapter_audios) <= Len(chapters)
    /\ \A k \in 1..Len(chapter_audios) :
          /\ chapter_audios[k].chapter = chapters[k]
          /\ chapter_audios[k].chapter.index = k - 1

\* C20: convert takes the chapters one at a time in index order: the chapters
\* whose file it has looked for are 0, 1, ... in that order, a chapter is
\* looked for or synthesized only when every chapter before it has been
\* probed and recorded, and what build_m4b receives is one ChapterAudio per
\* chapter, in ascending chapter.index order.
C20_ChaptersInOrder ==
    run # None =>
        LET r == run[1]
            done == Len(r.chapter_audios)
        IN  /\ ReachedIndices(r) = FirstIndices(Len(r.reached))
            /\ Len(r.reached) <= Len(r.chapters)
            /\ Len(r.reached) \in {done, done + 1}
            /\ r.pc \in {"synth", "probe"} => Len(r.reached) = done + 1
            /\ r.pc \in {"loop", "progress", "assemble"} => Len(r.reached) = done
            /\ Ascending(r.synthCalls)
            /\ Elems(r.synthCalls) \subseteq Elems(ReachedIndices(r))
            /\ Len(r.probeCalls) \in {done, done + 1}
            /\ r.probeCalls = FirstIndices(Len(r.probeCalls))
            /\ Len(r.probeCalls) <= Len(r.reached)
            /\ RecordsOfFirstChapters(r.chapter_audios, r.chapters)
            /\ Len(r.buildCalls) <= 1
            /\ \A k \in 1..Len(r.buildCalls) :
                  /\ Len(r.buildCalls[k].chapter_audios) = Len(r.chapters)
                  /\ RecordsOfFirstChapters(r.buildCalls[k].chapter_audios, r.chapters)
                  /\ r.buildCalls[k].chapter_audios = r.chapter_audios

\* A book of two chapters has been assembled, one chapter reused from the
\* working directory and the other synthesized.
C20_Witness ==
    /\ run # None
    /\ run[1].pc = "returned"
    /\ Len(run[1].chapters) = 2
    /\ run[1].buildCalls # <<>>
    /\ Len(run[1].synthCalls) = 1

(***************************************************************************)
(* C21                                                                     *)
(***************************************************************************)
\* A probe of this run failed: it was called and recorded nothing.
ProbeFailed(r) == Len(r.probeCalls) > Len(r.chapter_audios) /\ r.pc # "probe"

SynthFailed(r) == r.exc = "RuntimeError"

\* C21: convert calls build_m4b once in a conversion that succeeds, never
\* twice, only when every chapter has been looked for (found or synthesized)
\* and probed, and not at all in a run in which a synthesize call or a probe
\* failed.
C21_AssembleOnce ==
    run # None =>
        LET r == run[1]
            n == Len(r.chapters)
        IN  /\ Len(r.buildCalls) <= 1
            /\ r.pc = "returned" => Len(r.buildCalls) = 1
            /\ r.pc \in {"start", "enrich", "workdir", "loop", "synth", "probe",
                         "progress", "assemble"} => r.buildCalls = <<>>
            /\ r.buildCalls # <<>> =>
                  /\ n >= 1
                  /\ ReachedIndices(r) = FirstIndices(n)
                  /\ r.probeCalls = FirstIndices(n)
                  /\ Len(r.chapter_audios) = n
                  /\ \A k \in 1..n : k - 1 \in Elems(r.synthCalls)
                                        \/ r.reached[k].file # None
            /\ (SynthFailed(r) \/ ProbeFailed(r)) =>
                  (r.buildCalls = <<>> /\ r.pc # "returned")

\* A conversion of two chapters succeeded, with its one call of build_m4b.
C21_Witness ==
    /\ run # None
    /\ run[1].pc = "returned"
    /\ Len(run[1].chapters) = 2
    /\ Len(run[1].buildCalls) = 1
    /\ run[1].synthCalls = <<0, 1>>

\* A run whose probe failed has ended.
C21_WitnessProbeFailed ==
    /\ run # None
    /\ run[1].pc = "raised"
    /\ ProbeFailed(run[1])

(***************************************************************************)
(* C22                                                                     *)
(***************************************************************************)
\* The chapters of this run whose file was found and reused.
Reused(r) ==
    { k \in 1..Len(r.reached) :
        r.reached[k].file # None /\ Size(r.reached[k].file[1]) > 0 }

\* C22: every ChapterAudio of a run comes from a probe made in that run of
\* the file at its audio_path, also when the file was found in the working
\* directory and reused; and a probe that fails ends the run with its
\* exception, before build_m4b.
C22_AlwaysProbed ==
    run # None =>
        LET r == run[1]
        IN  /\ Len(r.chapter_audios) <= Len(r.probeCalls)
            /\ Len(r.probed) = Len(r.chapter_audios)
            /\ \A k \in 1..Len(r.chapter_audios) :
                  /\ r.probeCalls[k] = r.chapter_audios[k].chapter.index
                  /\ r.chapter_audios[k].audio_path.dir = r.work_path
                  /\ r.chapter_audios[k].audio_path.name =
                        AudioName(r.chapter_audios[k].chapter.index,
                                  OutputFormat(r.engine))
                  /\ r.chapter_audios[k].duration_ms = ProbeDurationMs(r.probed[k])
            /\ \A k \in Reused(r) :
                  /\ k - 1 \notin Elems(r.synthCalls)
                  /\ (k < Len(r.reached)
                          \/ r.pc \in {"progress", "loop", "assemble", "returned"})
                        => k - 1 \in Elems(r.probeCalls)
            /\ ProbeFailed(r) =>
                  /\ r.pc \in {"finally", "raised"}
                  /\ r.exc = "CalledProcessError"
                  /\ r.buildCalls = <<>>

\* A run reused a file it found, probed it, and went on to return.
C22_Witness ==
    /\ run # None
    /\ run[1].pc = "returned"
    /\ Reused(run[1]) # {}
    /\ run[1].synthCalls # <<>>
    /\ Len(run[1].probeCalls) = 2

(***************************************************************************)
(* Two calls of Converter.convert running at once on one working           *)
(* directory: two command lines given the same -w, or two threads of a     *)
(* caller of the library.  They interleave at every step of convert.       *)
(***************************************************************************)
SharedBooks == { Book(<<TextA>>, Some(PngMagic)), Book(<<TextB>>, Some(PngMagic)) }

\* a caller's thread, in its call of convert
Caller(name, epub, output_path, engine, work_dir) ==
    [NewThread(name, None, engine) EXCEPT
        !.pc = "convert",
        !.run = Some(NewRun(epub, output_path, engine, FALSE, Some(work_dir)))]

InitShared ==
    /\ \E b1, b2 \in SharedBooks, e \in {"edge"} :
          threads = <<Caller("p1", b1, "a.m4b", e, "wd"),
                      Caller("p2", b2, "b.m4b", e, "wd")>>
    /\ jobs = [id \in {} |-> None]
    /\ uploads = [id \in {} |-> None]
    /\ resp = None
    /\ registry = ImportedEngines
    /\ world = Some([fs |-> [d \in {} |-> NoFiles], out |-> NoFiles, tmp |-> 0])
    /\ world0 = world
    /\ run = None
    /\ runs = <<>>
    /\ ParseIdle
    /\ FFIdle
    /\ FnIdle
    /\ CliIdle
    /\ MgrIdle

\* converter.py lines 86-87 with no on_progress callback
SProgress ==
    \E t \in DOMAIN threads :
        WStep(t, ConvProgress(RunOf(t), world[1])) /\ UNCHANGED jobs

NextShared ==
    \/ WParse
    \/ WEnrich
    \/ WWorkDir
    \/ WNextChapter
    \/ WSynthReturn
    \/ WSynthRaise
    \/ WProbe
    \/ SProgress
    \/ WAssemble
    \/ WFinally

SpecShared == InitShared /\ [][NextShared]_vars

(***************************************************************************)
(* C23                                                                     *)
(***************************************************************************)
\* The calls of convert of the state: the caller's own and the threads'.
AllRuns ==
    (IF run # None THEN {run[1]} ELSE {})
        \cup { threads[t].run[1] : t \in { u \in DOMAIN threads : threads[u].run # None } }

\* Each build_m4b call of r read, for every record, the content that was
\* probed for it, and the record's duration is that content's duration.
AssemblesWhatWasProbed(r) ==
    \A k \in 1..Len(r.buildCalls) :
        \A j \in 1..Len(r.buildCalls[k].chapter_audios) :
            /\ r.buildCalls[k].tracks[j] = Some(r.probed[j])
            /\ r.buildCalls[k].chapter_audios[j].duration_ms =
                  ProbeDurationMs(r.probed[j])

\* C23: for every ChapterAudio that build_m4b receives, the file assembly
\* reads at audio_path is the content that was probed and duration_ms is its
\* duration, whatever other conversions do meanwhile.
C23_ProbedIsAssembled == \A r \in AllRuns : AssemblesWhatWasProbed(r)

\* A call of build_m4b has been made.
SomeBuildCall == \E r \in AllRuns : r.buildCalls # <<>>

(***************************************************************************)
(* C24                                                                     *)
(***************************************************************************)
\* The names of the files build_m4b creates in temp_dir.
Artifacts ==
    {ConcatTxt, FFMetadataTxt, CombinedM4a, WithChaptersM4b,
     CoverName(JpgMagic), CoverName(PngMagic)}

\* build_m4b has finished, by returning or by raising, and convert has not
\* yet left its try block.
BuildFinished(r) == r.buildCalls # <<>> /\ r.pc = "finally"

\* C24: when build_m4b has finished, whether it returned or raised, none of
\* the files it created in the working directory (concat.txt,
\* ffmetadata.txt, combined.m4a, with_chapters.m4b, the cover) is left there.
C24_ArtifactsRemoved ==
    (run # None /\ BuildFinished(run[1])) =>
        DOMAIN world[1].fs[run[1].work_path] \cap Artifacts = {}

\* The part of C24 the code does: after a build_m4b that returned, in a
\* working directory no earlier call has used, the two intermediate audio
\* files are gone.
IntermediateAudioRemoved ==
    (run # None /\ runs = <<>> /\ BuildFinished(run[1]) /\ run[1].exc = NoExc) =>
        DOMAIN world[1].fs[run[1].work_path] \cap {CombinedM4a, WithChaptersM4b} = {}

(***************************************************************************)
(* web/jobs.py statement by statement: the job dicts are objects on a      *)
(* heap, _jobs maps a job id to a reference, and a thread holds _lock      *)
(* from the with statement of a method to its end.  The handler thread     *)
(* (the event loop of app.py) calls create, update_status and get; the      *)
(* worker thread calls what run_conversion calls.                          *)
(***************************************************************************)

\* the calls of get stepped through
MaxSnapshots == 2

JobThreads == {"handler", "worker"}

Call(op, job_id, args) == [op |-> op, job_id |-> job_id, args |-> args]

\* app.py lines 164-180: the calls of a conversion of two chapters that
\* succeeds, and of one that fails after its first chapter
WorkerCalls ==
    { << Call("update_progress", "j1", <<1, 2, <<"a">> >>),
         Call("update_progress", "j1", <<2, 2, <<"b">> >>),
         Call("set_output", "j1", <<"out.m4b">>),
         Call("update_status", "j1", <<"done">>) >>,
      << Call("update_progress", "j1", <<1, 2, <<"a">> >>),
         Call("set_error", "j1", <<"boom">>),
         Call("update_status", "j1", <<"error">>) >> }

\* the item assignments of an updating method, in the order of its lines
Assignments(call) ==
    CASE call.op = "update_status" -> << <<"status", call.args[1]>> >>
      [] call.op = "update_progress" ->
            << <<"current_chapter", call.args[1]>>,
               <<"total_chapters", call.args[2]>>,
               <<"chapter_title", call.args[3]>> >>
      [] call.op = "set_output" -> << <<"output_path", Some(call.args[1])>> >>
      [] call.op = "set_error" -> << <<"error", Some(call.args[1])>> >>
      [] OTHER -> <<>>

Updating == {"update_status", "update_progress", "set_output", "set_error"}

IdleThread == [pc |-> "idle", call |-> None, todo |-> <<>>, job |-> None, ret |-> None]

NewManager ==
    [heap |-> <<>>, jobs |-> <<>>, lock |-> None,
     th |-> [t \in JobThreads |-> IdleThread],
     prog |-> <<>>, started |-> FALSE, gets |-> 0,
     held |-> <<>>, written |-> <<>>]

\* dict(job) with the reference returned for the job itself
DictAlias(heap, ref) == [heap |-> heap, ref |-> ref]

\* dict(job): a new object with the items of the old one
DictCopy(heap, ref) == [heap |-> Append(heap, heap[ref]), ref |-> Len(heap) + 1]

jobsRest == <<book, parsed, ffIn, ffOut, run, world, world0, runs, webVars, fnVars, report>>

InitJobs ==
    /\ ParseIdle
    /\ FFIdle
    /\ ConvIdle
    /\ WebIdle
    /\ FnIdle
    /\ CliIdle
    /\ mgr = Some(NewManager)

\* with self._lock: of the method called
Enter(m, t, call) ==
    [m EXCEPT !.lock = Some(t),
              !.th[t] = [pc |-> "locked", call |-> Some(call),
                         todo |-> Assignments(call), job |-> None, ret |-> None]]

CanEnter(m, t) == m.th[t].pc = "idle" /\ m.lock = None

\* upload calls jobs.create
JCreate ==
    /\ mgr # None
    /\ CanEnter(mgr[1], "handler")
    /\ "j1" \notin DOMAIN mgr[1].jobs
    /\ mgr' = Some(Enter(mgr[1], "handler", Call("create", "j1", <<>>)))
    /\ UNCHANGED jobsRest

\* start_convert calls jobs.update_status(job_id, "converting") and then
\* starts the thread of run_conversion
JStart ==
    /\ mgr # None
    /\ CanEnter(mgr[1], "handler")
    /\ "j1" \in DOMAIN mgr[1].jobs
    /\ ~mgr[1].started
    /\ \E calls \in WorkerCalls :
          mgr' = Some([Enter(mgr[1], "handler",
                             Call("update_status", "j1", <<"converting">>))
                          EXCEPT !.started = TRUE, !.prog = calls])
    /\ UNCHANGED jobsRest

\* a handler calls jobs.get
JGet ==
    /\ mgr # None
    /\ CanEnter(mgr[1], "handler")
    /\ mgr[1].gets < MaxSnapshots
    /\ mgr' = Some([Enter(mgr[1], "handler", Call("get", "j1", <<>>))
                       EXCEPT !.gets = @ + 1])
    /\ UNCHANGED jobsRest

\* run_conversion calls its next method, once start_convert has returned
JWorkerCall ==
    /\ mgr # None
    /\ CanEnter(mgr[1], "worker")
    /\ mgr[1].prog # <<>>
    /\ mgr' = Some([Enter(mgr[1], "worker", Head(mgr[1].prog))
                       EXCEPT !.prog = Tail(@)])
    /\ UNCHANGED jobsRest

\* lines 29-43: job = {...}; self._jobs[job_id] = job
JStore ==
    /\ mgr # None
    /\ \E t \in JobThreads :
          LET m == mgr[1]
              s == m.th[t]
              job == Job("j1", "e.epub", <<"T">>, <<"A">>, "en", 2, None)
              ref == Len(m.heap) + 1
          IN  /\ s.pc = "locked"
              /\ s.call[1].op = "create"
              /\ mgr' = Some([m EXCEPT !.heap = Append(@, job),
                                       !.jobs = Put(@, s.call[1].job_id, ref),
                                       !.written = Put(@, s.call[1].job_id, job),
                                       !.th[t].job = Some(ref),
                                       !.th[t].pc = "copy"])
    /\ UNCHANGED jobsRest

\* line 48: job = self._jobs.get(job_id)
JLookup ==
    /\ mgr # None
    /\ \E t \in JobThreads :
          LET m == mgr[1]
              s == m.th[t]
              job_id == s.call[1].job_id
          IN  /\ s.pc = "locked"
              /\ s.call[1].op = "get"
              /\ mgr' = Some([m EXCEPT
                     !.th[t].job = IF job_id \in DOMAIN m.jobs
                                   THEN Some(m.jobs[job_id]) ELSE None,
                     !.th[t].pc = "copy"])
    /\ UNCHANGED jobsRest

\* lines 44 and 49: return dict(job), or None when there is no job
JCopy ==
    /\ mgr # None
    /\ \E t \in JobThreads :
          LET m == mgr[1]
              s == m.th[t]
          IN  /\ s.pc = "copy"
              /\ IF s.job = None
                 THEN mgr' = Some([m EXCEPT !.th[t].pc = "release"])
                 ELSE LET c == DictCopy(m.heap, s.job[1])
                      IN  mgr' = Some([m EXCEPT !.heap = c.heap,
                                                !.th[t].ret = Some(c.ref),
                                                !.th[t].pc = "release"])
    /\ UNCHANGED jobsRest

\* lines 53-54, 58-61, 65-66, 70-71: the next item assignment of an
\* updating method, none when the job id is unknown
JAssign ==
    /\ mgr # None
    /\ \E t \in JobThreads :
          LET m == mgr[1]
              s == m.th[t]
              job_id == s.call[1].job_id
              item == Head(s.todo)
          IN  /\ s.pc = "locked"
              /\ s.call[1].op \in Updating
              /\ s.todo # <<>>
              /\ IF job_id \in DOMAIN m.jobs
                 THEN mgr' = Some([m EXCEPT
                         !.heap[m.jobs[job_id]][item[1]] = item[2],
                         !.written[job_id][item[1]] = item[2],
                         !.th[t].todo = Tail(@)])
                 ELSE mgr' = Some([m EXCEPT !.th[t].todo = <<>>])
    /\ UNCHANGED jobsRest

\* the end of the with statement: the lock is released and the caller has
\* what the method returned
JRelease ==
    /\ mgr # None
    /\ \E t \in JobThreads :
          LET m == mgr[1]
              s == m.th[t]
          IN  /\ \/ s.pc = "release"
                 \/ s.pc = "locked" /\ s.call[1].op \in Updating /\ s.todo = <<>>
              /\ mgr' = Some([m EXCEPT
                     !.lock = None,
                     !.th[t] = IdleThread,
                     !.held = IF s.ret = None THEN @
                              ELSE Append(@, [ref |-> s.ret[1],
                                              returned |-> m.heap[s.ret[1]],
                                              expected |-> m.heap[s.ret[1]],
                                              mutated |-> FALSE])])
    /\ UNCHANGED jobsRest

\* the caller assigns to an item of a dict it was returned
JMutate ==
    /\ mgr # None
    /\ mgr[1].th["handler"].pc = "idle"
    /\ \E i \in DOMAIN mgr[1].held :
          LET m == mgr[1]
              h == m.held[i]
          IN  /\ ~h.mutated
              /\ mgr' = Some([m EXCEPT
                     !.heap[h.ref].chapter_title = <<"m">>,
                     !.held[i].expected.chapter_title = <<"m">>,
                     !.held[i].mutated = TRUE])
    /\ UNCHANGED jobsRest

NextJobs ==
    \/ JCreate
    \/ JStart
    \/ JGet
    \/ JWorkerCall
    \/ JStore
    \/ JLookup
    \/ JCopy
    \/ JAssign
    \/ JRelease
    \/ JMutate

SpecJobs == InitJobs /\ [][NextJobs]_vars

\* the snapshots returned so far
Held == IF mgr = None THEN {} ELSE Elems(mgr[1].held)

\* a returned snapshot holds what it held when it was returned, changed
\* only by what its caller assigned to it
SnapshotsKeep == \A h \in Held : mgr[1].heap[h.ref] = h.expected

\* the stored job holds what the methods of the manager wrote to it
StoredKeeps ==
    mgr # None =>
        \A job_id \in DOMAIN mgr[1].jobs :
            mgr[1].heap[mgr[1].jobs[job_id]] = mgr[1].written[job_id]

\* current_chapter, total_chapters and chapter_title as one call of
\* update_progress left them, or as create did
WholeProgress ==
    {<<0, 2, <<>> >>} \cup
    {c.args : c \in {c \in UNION {Elems(calls) : calls \in WorkerCalls} :
                        c.op = "update_progress"}}

ProgressOf(job) == <<job.current_chapter, job.total_chapters, job.chapter_title>>

SnapshotsWhole == \A h \in Held : ProgressOf(h.returned) \in WholeProgress

\* the lock is held by the one thread that is inside a method, and a
\* thread inside a method waits for nothing
LockHeldInsideMethod ==
    mgr # None =>
        \A t \in JobThreads :
            (mgr[1].th[t].pc # "idle") <=> (mgr[1].lock = Some(t))

HalfApplied ==
    /\ mgr # None
    /\ mgr[1].th["worker"].pc = "locked"
    /\ mgr[1].th["worker"].call[1].op = "update_progress"
    /\ Len(mgr[1].th["worker"].todo) \in {1, 2}
    /\ mgr[1].gets < MaxSnapshots

\* what a snapshot of a job shows when it is 'done' or 'error'
Settled(job) ==
    /\ job.status = "done" => job.output_path # None
    /\ job.status = "error" => job.error # None

\* C26: every job, as stored and as returned by the status request, has
\* its output_path set when its status is 'done' and its error set when
\* its status is 'error'; a download that passed the 'done' test found an
\* output path to serve
C26_DoneHasOutput ==
    /\ \A id \in DOMAIN jobs : Settled(jobs[id])
    /\ (resp # None /\ resp[1].op = "jobs" /\ resp[1].code = 200)
          => Settled(resp[1].body[1])
    /\ (resp # None /\ resp[1].op = "download")
          => /\ resp[1].code \in {200, 404}
             /\ resp[1].code = 200 =>
                   /\ jobs[resp[1].job_id].status = "done"
                   /\ jobs[resp[1].job_id].output_path # None
                   /\ resp[1].body = Some(world[1].out[jobs[resp[1].job_id].output_path[1]])

\* a download was served while another job had failed
C26_Witness ==
    /\ resp # None
    /\ resp[1].op = "download"
    /\ resp[1].code = 200
    /\ \E id \in DOMAIN jobs : jobs[id].status = "error" /\ jobs[id].error # None

\* the run started with no working directory on disk
StartedEmpty == world0 # None /\ DOMAIN world0[1].fs = {}

\* the non-empty file at the cache path of chapter c is what a synthesize
\* call for c that returned leaves there
CompleteAt(r, w, c) ==
    LET name == AudioName(c.index, OutputFormat(r.engine))
    IN  (Exists(w, r.work_path, name) /\ Size(w.fs[r.work_path][name]) > 0)
            => w.fs[r.work_path][name] = FullAudio(r.engine, c.text)

\* C27: starting from an empty working directory, a non-empty file stands
\* at the cache path of a chapter only if a synthesize call for that
\* chapter returned: a call that raised or was interrupted part-way left no
\* non-empty file there
C27_NoPartialCache ==
    (run # None /\ StartedEmpty) =>
        \A c \in Elems(run[1].chapters) : CompleteAt(run[1], world[1], c)

(***************************************************************************)
(* The web application with calls that end by an interruption: the engine, *)
(* the probe or the assembly raises what is no Exception.  The threads of  *)
(* run_conversion are scheduled fairly: a thread that can take a step      *)
(* takes one.                                                              *)
(***************************************************************************)
\* line 77, 79 or 92 of convert: the call in progress is interrupted
ConvCallInterrupted(r, w) ==
    IF r.pc \in {"synth", "probe", "assemble"} THEN ConvInterrupt(r, w) ELSE {}

WInterrupt ==
    \E t \in DOMAIN threads :
        WStep(t, ConvCallInterrupted(RunOf(t), world[1])) /\ UNCHANGED jobs

\* lines 140-180: what convert raised is not caught, the thread ends
WEscaped ==
    \E t \in DOMAIN threads :
        /\ Escaped(threads[t])
        /\ threads' = [threads EXCEPT ![t].pc = "ended"]
        /\ resp' = None
        /\ UNCHANGED <<jobs, uploads, world, registry, convVars>>

\* the steps of the threads of run_conversion
WorkerNext ==
    \/ WPrepare
    \/ WParse
    \/ WEnrich
    \/ WWorkDir
    \/ WNextChapter
    \/ WSynthReturn
    \/ WSynthRaise
    \/ WProbe
    \/ WProgress
    \/ WFinally
    \/ WSetOutput
    \/ WStatusDone
    \/ WSetError
    \/ WStatusError
    \/ WInterrupt
    \/ WEscaped
    \/ WAssemble

\* the application once upload has stored book.EPUB as job j1
InitLive ==
    /\ CliIdle
    /\ MgrIdle
    /\ \E b \in {Book(<<TextA, TextB>>, Some(PngMagic))} :
          LET fn == [stem |-> "book", suffix |-> ".EPUB"]
          IN  /\ uploads = Put([id \in {} |-> None], "j1", [filename |-> fn, book |-> b])
              /\ jobs = Create([id \in {} |-> None], "j1", EpubPath("j1", fn),
                               b.metadata.title, b.metadata.author, b.metadata.language,
                               Len(ExtractChapters(b.spine).chapters),
                               b.metadata.cover_image)
    /\ threads = <<>>
    /\ resp = None
    /\ registry = ImportedEngines
    /\ world = Some([fs |-> [d \in {} |-> NoFiles], out |-> NoFiles, tmp |-> 0])
    /\ world0 = world
    /\ run = None
    /\ runs = <<>>
    /\ ParseIdle
    /\ FFIdle
    /\ FnIdle

NextLive ==
    \/ StartConvert
    \/ WorkerNext

SpecLive == InitLive /\ [][NextLive]_vars /\ WF_vars(WorkerNext)

IsConverting(id) == id \in DOMAIN jobs /\ jobs[id].status = "converting"

IsSettled(id) == id \in DOMAIN jobs /\ jobs[id].status \in {"done", "error"}

\* C28: with its worker scheduled fairly and every engine, probe and
\* assembly call ending by a return, an exception or an interruption, a job
\* that is 'converting' is later 'done' or 'error'
C28_ConvertingEnds == \A id \in JobIds : IsConverting(id) ~> IsSettled(id)

\* no job is 'converting' once its worker has ended
NoneLeftConverting ==
    \A t \in DOMAIN threads :
        threads[t].pc = "ended" => ~IsConverting(threads[t].job_id)

\* the chapter count of a job lies between 0 and the total, and is the
\* total once the job is 'done'
ProgressInRange(job) ==
    /\ 0 <= job.current_chapter
    /\ job.current_chapter <= job.total_chapters
    /\ job.status = "done" => job.current_chapter = job.total_chapters

\* no step lowers the chapter count of a job, and no job goes away
ProgressGrows ==
    \A id \in DOMAIN jobs :
        /\ id \in DOMAIN jobs'
        /\ jobs'[id].current_chapter >= jobs[id].current_chapter

\* C29: in every state every job has 0 <= current_chapter <=
\* total_chapters, with current_chapter = total_chapters when its status is
\* 'done', and no step makes current_chapter smaller
C29_ProgressBounded ==
    /\ [](\A id \in DOMAIN jobs : ProgressInRange(jobs[id]))
    /\ [][ProgressGrows]_vars

\* a job of two chapters is 'done' while the other is half-way
C29_Witness ==
    /\ \E id \in DOMAIN jobs :
          /\ jobs[id].status = "done"
          /\ jobs[id].current_chapter = 2
          /\ jobs[id].total_chapters = 2
    /\ \E id \in DOMAIN jobs :
          /\ jobs[id].status = "converting"
          /\ jobs[id].current_chapter = 1

\* C30: when convert has returned or raised, whatever work_dir was (None,
\* the empty string or a path), no temporary directory it made is left,
\* and the directory the caller named, like every directory there was
\* before, is still there
C30_RemovesOnlyItsOwn ==
    (run # None /\ Ended(run[1])) =>
        LET r == run[1]
            w == world[1]
        IN  /\ TempDirs(w) \cap DOMAIN w.fs = {}
            /\ \A d \in DOMAIN world0[1].fs : d \in DOMAIN w.fs
            /\ (Truthy(r.work_dir) /\ r.work_path # "") => r.work_dir[1] \in DOMAIN w.fs

\* the same for the calls whose work_dir is None or a path
RemovesOnlyItsOwnUnlessEmpty ==
    (run # None /\ run[1].work_dir # Some("")) => C30_RemovesOnlyItsOwn

====
